---- MODULE Spec2Model ----
(***************************************************************************)
(* A model of backend/server.py: the users, posts and comments collections *)
(* of the document store, the bearer tokens the server has signed, the     *)
(* server clock, and the HTTP handlers.  A handler is a coroutine: it runs *)
(* until it awaits the store, and while it waits the event loop runs the   *)
(* steps of other requests and the clock moves.  There is one action per   *)
(* resumption of a handler: the code it runs up to its next await together *)
(* with the store operation awaited there.  `calls` holds the requests in  *)
(* progress with what each has read so far; the step that ends a request   *)
(* records the request and its response in `resp`.                         *)
(***************************************************************************)
EXTENDS Integers, Sequences, FiniteSets, TLC

(***************************************************************************)
(* Bounds of the model.                                                    *)
(***************************************************************************)
\* clock resolution: instants per second (utcnow() has sub-second resolution)
TicksPerSec == 2
\* users the store may hold
MaxUsers == 2
\* tokens the clients keep
MaxTokens == 3
\* posts and comments ever inserted
MaxPosts == 1
MaxComments == 2
\* requests the server works on at the same time
MaxCalls == 2
\* posts in the store whose feeds are read
FeedPosts == 3

(***************************************************************************)
(* Program constants.                                                      *)
(***************************************************************************)
ACCESS_TOKEN_EXPIRE_DAYS == 30
\* timedelta(days=1) in seconds
SecondsPerDay == 86400

\* get_feed's default for limit
DefaultLimit == 20

ExpireSecs == ACCESS_TOKEN_EXPIRE_DAYS * SecondsPerDay
ExpireTicks == ExpireSecs * TicksPerSec

(***************************************************************************)
(* Generic helpers on lists.                                               *)
(***************************************************************************)
Range(s) == {s[i] : i \in 1..Len(s)}

\* mutant: $push in place of $addToSet
AddToSet_push(s, x) == Append(s, x)

\* MongoDB $addToSet on an array field
AddToSet(s, x) == IF x \in Range(s) THEN s ELSE Append(s, x)

\* mutant: $pull empties the array
Pull_all(s, x) == <<>>

\* MongoDB $pull of a value from an array field
Pull(s, x) == SelectSeq(s, LAMBDA y : y # x)

(***************************************************************************)
(* Identifier strings.  An ObjectId is (collection kind k, number n); its  *)
(* canonical string str(oid) is 24 lower-case hex digits.  ObjectId(s)     *)
(* parses hex digits of either case, so the upper-case spelling (up=TRUE)  *)
(* is a different string naming the same ObjectId.  BadId is a string that *)
(* is not 24 hex digits: ObjectId(BadId) raises InvalidId.                 *)
(***************************************************************************)
BadId == [k |-> "x", n |-> 0, up |-> FALSE]

\* str(oid)
Str(kind, num) == [k |-> kind, n |-> num, up |-> FALSE]

\* the upper-case spelling of the same identifier
Upper(s) == [s EXCEPT !.up = TRUE]

\* ObjectId(s) succeeds
ValidId(s) == s.k # "x"

(***************************************************************************)
(* Passwords.  bcrypt digests the first 72 bytes of a password and nothing *)
(* after them, and passlib refuses a password holding a NUL byte.  A       *)
(* password is therefore: head, its first 72 bytes; rest, what follows     *)
(* them (0 when the password is no longer than 72 bytes); nul, whether it  *)
(* holds a NUL byte.                                                       *)
(***************************************************************************)
Pw(h, r) == [head |-> h, rest |-> r, nul |-> FALSE]
PwShortA == Pw("A", 0)
PwLongX  == Pw("L", 1)
PwLongY  == Pw("L", 2)
PwNul    == [head |-> "N", rest |-> 0, nul |-> TRUE]
Passwords == {PwShortA, PwLongX, PwLongY, PwNul}

\* the bytes bcrypt digests
BcryptInput(p) == p.head

\* pwd_context.hash / pwd_context.verify raise on a NUL byte
PasswordRaises(p) == p.nul

\* hash_password: the salted digest; verify recomputes it with the stored
\* salt, so the salt is left out of the credential
hash_password(p) == [digest |-> BcryptInput(p)]

verify_password(plain, hashed) == hash_password(plain).digest = hashed.digest

(***************************************************************************)
(* Tokens.  jwt.encode writes exp as whole seconds (NumericDate); sig is   *)
(* "ok" for a token signed with SECRET_KEY, "bad" when the signature does  *)
(* not match the payload, "malformed" when the string is not a JWT.        *)
(***************************************************************************)
NoTok == [sub |-> BadId, exp |-> 0, sig |-> "none"]
Malformed == [sub |-> BadId, exp |-> 0, sig |-> "malformed"]

\* utctimetuple() drops the sub-second part of the instant
WholeSecs(t) == t \div TicksPerSec

create_access_token(sub, t) ==
    [sub |-> sub, exp |-> WholeSecs(t) + ExpireSecs, sig |-> "ok"]

\* mutant: a token is still accepted at the very instant of its expiry
jwt_expired_after(tok, t) == tok.exp * TicksPerSec < t

\* jwt.decode: signature first, then exp against the clock, no leeway
jwt_expired(tok, t) == tok.exp * TicksPerSec <= t

\* mutant: decoding without the expiry check
jwt_decode_no_exp(tok, t) ==
    IF tok.sig # "ok" THEN "InvalidTokenError" ELSE "payload"

\* mutant: the expiry is read before the signature is verified
jwt_decode_exp_first(tok, t) ==
    IF tok.sig = "malformed" THEN "InvalidTokenError"
    ELSE IF tok.exp * TicksPerSec <= t THEN "ExpiredSignatureError"
    ELSE IF tok.sig # "ok" THEN "InvalidTokenError"
    ELSE "payload"

jwt_decode(tok, t) ==
    IF tok.sig # "ok" THEN "InvalidTokenError"
    ELSE IF jwt_expired(tok, t) THEN "ExpiredSignatureError"
    ELSE "payload"

(***************************************************************************)
(* State.                                                                  *)
(***************************************************************************)
VARIABLES
    users,      \* db.users: the n-th inserted document has _id ("u", n)
    posts,      \* db.posts: post number -> document, deleted ones removed
    comments,   \* db.comments: comment number -> document
    nextPost,   \* posts inserted so far
    nextComment,\* comments inserted so far
    now,        \* the server clock, in ticks
    issued,     \* tokens the server has returned and clients still hold, each
                \* with the email it was issued for and the instant of issue
    secrets,    \* history: the password each user registered with
    resp,       \* the last request answered and the response to it
    calls       \* the requests in progress: one slot per concurrent call,
                \* holding what its handler has read and where it stands

vars == <<users, posts, comments, nextPost, nextComment, now, issued, secrets, resp,
         calls>>

None == "<None>"

Emails == {"a@x.com", "b@x.com"}
Usernames == {"", "alice"}

\* the instants the clock visits: the start, the first tick after it, and
\* the ticks around the expiry of the tokens issued at those two
Instants == {0, 1, ExpireTicks - 1, ExpireTicks, ExpireTicks + 1}

\* op: the handler; tok: the bearer token presented; at: the instant
\* jwt.decode read the clock to check it; actor: the user get_current_user
\* resolved it to (0: none); arg: path parameter or body; out: the token
\* or the identifier the response carries
NoResp == [op |-> "none", tok |-> NoTok, at |-> 0, actor |-> 0, arg |-> None,
           status |-> 0, detail |-> "", out |-> NoTok]

Response(op, tok, actor, arg, status, detail, out) ==
    [op |-> op, tok |-> tok, at |-> 0, actor |-> actor, arg |-> arg,
     status |-> status, detail |-> detail, out |-> out]

\* a user document
NewUser(email, username, full_name, password) ==
    [email |-> email, username |-> username, full_name |-> full_name,
     password_hash |-> hash_password(password), profile_pic |-> None,
     bio |-> None, followers |-> <<>>, following |-> <<>>]

\* the three collections, and the collections before anything is stored
Store == [users |-> users, posts |-> posts, comments |-> comments]
NoStore == [users |-> <<>>, posts |-> <<>>, comments |-> <<>>]

\* the current_user of a request get_current_user has not returned to yet
NoDoc == NewUser("", "", None, Pw("", 0))

\* a slot with no request in it, and all slots empty.  A request in
\* progress holds: op, the handler; pc, the await it stands at; tok, arg,
\* the token and the argument it came with; at, the instant jwt.decode read
\* the clock; actor, cur, the _id and the document get_current_user
\* returned; created_at, the instant datetime.utcnow() read the clock for
\* the document the handler is about to insert; out, i, the handler's
\* local results and loop index; pre, history, the store as the request
\* found it
Idle == [op |-> "idle", pc |-> "", tok |-> NoTok, at |-> 0, actor |-> 0,
         cur |-> NoDoc, created_at |-> 0, arg |-> None, out |-> NoTok, i |-> 0,
         pre |-> NoStore]
Slots == 1..MaxCalls
NoCalls == [c \in Slots |-> Idle]

Issue(tok, email) == [tok |-> tok, email |-> email, at |-> now]
IssuedTokens == {i.tok : i \in issued}

Init ==
    /\ users = <<>>
    /\ posts = <<>>
    /\ comments = <<>>
    /\ nextPost = 0
    /\ nextComment = 0
    /\ now = 0
    /\ issued = {}
    /\ secrets = <<>>
    /\ resp = NoResp
    /\ calls = NoCalls

(***************************************************************************)
(* Store lookups.                                                          *)
(***************************************************************************)
UserIdx == 1..Len(users)

\* find_one({"email": e}) / find_one({"username": u}): 0 when there is none
FindByEmail(e) ==
    IF \E i \in UserIdx : users[i].email = e
    THEN CHOOSE i \in UserIdx : users[i].email = e /\ \A j \in 1..(i - 1) : users[j].email # e
    ELSE 0

FindByUsername(u) ==
    IF \E i \in UserIdx : users[i].username = u
    THEN CHOOSE i \in UserIdx : users[i].username = u /\ \A j \in 1..(i - 1) : users[j].username # u
    ELSE 0

\* mutant: the lookup ignores its filter and returns the first user
FindUser_first(s) == IF s.k = "u" /\ UserIdx # {} THEN 1 ELSE 0

\* find_one({"_id": ObjectId(s)}) on db.users, for a string ObjectId accepts
FindUser(s) == IF s.k = "u" /\ s.n \in UserIdx THEN s.n ELSE 0

\* find_one({"_id": ObjectId(s)}) on db.posts and db.comments: 0 for none
FindPost(s) == IF s.k = "p" /\ s.n \in DOMAIN posts THEN s.n ELSE 0
FindComment(s) == IF s.k = "c" /\ s.n \in DOMAIN comments THEN s.n ELSE 0

\* a new key in a collection
Insert(coll, n, doc) ==
    [i \in DOMAIN coll \cup {n} |-> IF i = n THEN doc ELSE coll[i]]

\* a key removed from a collection
Remove(coll, gone) == [i \in DOMAIN coll \ gone |-> coll[i]]

(***************************************************************************)
(* get_current_user, the dependency every endpoint but register and login  *)
(* runs before its body, when the clock stands still between its           *)
(* jwt.decode and the reply to its lookup.                                 *)
(***************************************************************************)
get_current_user(tok) ==
    LET d == jwt_decode(tok, now) IN
    IF d = "ExpiredSignatureError"
    THEN [status |-> 401, detail |-> "Token has expired", uid |-> 0]
    ELSE IF d = "InvalidTokenError"
    THEN [status |-> 401, detail |-> "Invalid token", uid |-> 0]
    ELSE IF ~ValidId(tok.sub)
    THEN [status |-> 500, detail |-> "Internal Server Error", uid |-> 0]
    ELSE IF FindUser(tok.sub) = 0
    THEN [status |-> 401, detail |-> "User not found", uid |-> 0]
    ELSE [status |-> 200, detail |-> "", uid |-> FindUser(tok.sub)]

\* what a client can put in the Authorization header: a token it was given,
\* such a token with its payload or signature altered, or garbage
Tampered(tok) ==
    {[tok EXCEPT !.sig = "bad"],
     [tok EXCEPT !.exp = tok.exp + ExpireSecs, !.sig = "bad"]}
    \cup {[tok EXCEPT !.sub = Str("u", (tok.sub.n % MaxUsers) + 1), !.sig = "bad"]}

Presentable ==
    IssuedTokens \cup UNION {Tampered(t) : t \in IssuedTokens} \cup {Malformed}

(***************************************************************************)
(* Requests in progress.  A request takes a slot when it arrives and gives *)
(* it back in the step that answers it.                                    *)
(***************************************************************************)
\* no request is in progress
Quiescent == \A c \in Slots : calls[c].op = "idle"

\* slots are interchangeable: a new request takes the first empty one
FreeSlot(c) == calls[c].op = "idle" /\ \A d \in Slots : d < c => calls[d].op # "idle"

\* the request in slot c stands at the await `pc` of handler `op`
At(c, op, pc) == calls[c].op = op /\ calls[c].pc = pc

\* a step that reads the store, or nothing
Reads == UNCHANGED <<users, posts, comments, nextPost, nextComment, now, issued, secrets>>

\* a request as it arrives; the store as it found it is kept for a request
\* that arrives while no other is in progress
Call(op, pc, tok, arg) ==
    [Idle EXCEPT !.op = op, !.pc = pc, !.tok = tok, !.arg = arg,
                 !.pre = IF Quiescent THEN Store ELSE NoStore]

\* the handler goes on to its next await
Resume(c, pc) == calls' = [calls EXCEPT ![c].pc = pc] /\ UNCHANGED resp

\* the handler goes on, keeping a result in a local variable
Keep(c, pc, out) ==
    calls' = [calls EXCEPT ![c].pc = pc, ![c].out = out] /\ UNCHANGED resp

\* the handler returns or raises: the response is sent
FinishWith(c, status, detail, out) ==
    /\ resp' = [Response(calls[c].op, calls[c].tok, calls[c].actor, calls[c].arg,
                         status, detail, out) EXCEPT !.at = calls[c].at]
    /\ calls' = [calls EXCEPT ![c] = Idle]

Finish(c, status, detail) == FinishWith(c, status, detail, NoTok)

\* the client has read the last response
Delivered == resp.op = "none"

\* the client reads the response
Deliver ==
    /\ ~Delivered
    /\ resp' = NoResp
    /\ UNCHANGED calls
    /\ Reads

\* no request is in progress and the last response has been read: clients
\* that wait for the response to one request before they send the next
Ready == Quiescent /\ Delivered

\* the current_user["_id"] of the request in slot c, as a string
Me(c) == Str("u", calls[c].actor)

(***************************************************************************)
(* get_current_user, lines 53-67.  jwt.decode reads the clock when the     *)
(* request arrives; the lookup of the token's user is awaited, and the     *)
(* document it returns is the current_user of the handler body.            *)
(***************************************************************************)
\* lines 53-60: the request arrives; jwt.decode, ObjectId(user_id)
Begin(c, op, tok, arg) ==
    /\ FreeSlot(c)
    /\ calls' = [calls EXCEPT ![c] =
                    [Call(op, IF jwt_decode(tok, now) = "payload" /\ ValidId(tok.sub)
                              THEN "auth" ELSE "refused", tok, arg)
                        EXCEPT !.at = now]]
    /\ UNCHANGED resp
    /\ Reads

\* lines 64-67: what jwt.decode raised is answered 401
Refuse(c) ==
    LET d == jwt_decode(calls[c].tok, calls[c].at) IN
    /\ calls[c].pc = "refused"
    /\ IF d = "ExpiredSignatureError" THEN Finish(c, 401, "Token has expired")
       ELSE IF d = "InvalidTokenError" THEN Finish(c, 401, "Invalid token")
       ELSE Finish(c, 500, "Internal Server Error")
    /\ Reads

\* lines 60-63: the lookup of the token's user; the handler body then runs
\* up to its first await, and create_post builds post_dict on the way
\* (line 369: datetime.utcnow())
Authenticate(c) ==
    LET u == FindUser(calls[c].tok.sub) IN
    /\ calls[c].pc = "auth"
    /\ IF u = 0
       THEN Finish(c, 401, "User not found")
       ELSE /\ calls' = [calls EXCEPT
                            ![c].actor = u, ![c].cur = users[u], ![c].pc = "run",
                            ![c].created_at =
                                IF calls[c].op = "create_post" THEN now ELSE 0]
            /\ UNCHANGED resp
    /\ Reads

\* a request to register or login arrives
Start(c, op, arg) ==
    /\ FreeSlot(c)
    /\ calls' = [calls EXCEPT ![c] = Call(op, "run", NoTok, arg)]
    /\ UNCHANGED resp
    /\ Reads

\* the outcome of a handler's guards: the response of a request they stop
Verdict(status, detail) == [status |-> status, detail |-> detail]
Pass == Verdict(200, "")
ServerError == Verdict(500, "Internal Server Error")

\* a step that evaluates guards: a request they stop is answered, one they
\* pass goes on to the await `pc`
Guard(c, v, pc) ==
    IF v.status = 200 THEN Resume(c, pc) ELSE Finish(c, v.status, v.detail)

(***************************************************************************)
(* POST /register, lines 130-169                                           *)
(***************************************************************************)
\* mutant: the username check is skipped
UsernameTaken_never(username) == FALSE

EmailTaken(email) == FindByEmail(email) # 0
UsernameTaken(username) == FindByUsername(username) # 0

\* lines 132-139: the guards, at one state of the store
register(email, username, full_name, password) ==
    IF EmailTaken(email) THEN Verdict(400, "Email already registered")
    ELSE IF UsernameTaken(username) THEN Verdict(400, "Username already taken")
    ELSE IF PasswordRaises(password) THEN ServerError
    ELSE Pass

\* registrations that have not inserted their user yet
Registering ==
    {c \in Slots : calls[c].op = "register" /\ calls[c].pc # "token"}

\* requests that may still return a token
Signing == {c \in Slots : calls[c].op \in {"register", "login"}}

\* the request arrives; the store has room for what it may insert
RegisterBegin(c, r) ==
    /\ \/ register(r.email, r.username, r.full_name, r.password).status # 200
       \/ /\ Len(users) + Cardinality(Registering) < MaxUsers
          /\ Cardinality(issued) + Cardinality(Signing) < MaxTokens
    /\ Start(c, "register", r)

\* lines 132-135: the lookup by email
RegisterCheckEmail(c) ==
    /\ At(c, "register", "run")
    /\ IF EmailTaken(calls[c].arg.email)
       THEN Finish(c, 400, "Email already registered")
       ELSE Resume(c, "username")
    /\ Reads

\* lines 137-139: the lookup by username
RegisterCheckUsername(c) ==
    /\ At(c, "register", "username")
    /\ IF UsernameTaken(calls[c].arg.username)
       THEN Finish(c, 400, "Username already taken")
       ELSE Resume(c, "insert")
    /\ Reads

\* lines 142-155: the document with the password's hash, and the insert
RegisterInsert(c) ==
    LET r == calls[c].arg IN
    /\ At(c, "register", "insert")
    /\ IF PasswordRaises(r.password)
       THEN /\ Finish(c, 500, "Internal Server Error")
            /\ UNCHANGED <<users, secrets>>
       ELSE /\ Len(users) < MaxUsers
            /\ users' = Append(users, NewUser(r.email, r.username, r.full_name,
                                              r.password))
            /\ secrets' = Append(secrets, r.password)
            /\ Keep(c, "token", Str("u", Len(users) + 1))
    /\ UNCHANGED <<posts, comments, nextPost, nextComment, now, issued>>

\* lines 158-169: after the insert's reply, the token and the response
RegisterToken(c) ==
    LET out == create_access_token(calls[c].out, now) IN
    /\ At(c, "register", "token")
    /\ Cardinality(issued \cup {Issue(out, calls[c].arg.email)}) <= MaxTokens
    /\ issued' = issued \cup {Issue(out, calls[c].arg.email)}
    /\ FinishWith(c, 200, "", out)
    /\ UNCHANGED <<users, posts, comments, nextPost, nextComment, now, secrets>>

(***************************************************************************)
(* POST /login, lines 171-195                                              *)
(***************************************************************************)
\* lines 174-180: the guards, on the document the lookup by email returns
login(email, password) ==
    LET u == FindByEmail(email) IN
    IF u = 0 THEN Verdict(401, "Invalid email or password")
    ELSE IF PasswordRaises(password) THEN ServerError
    ELSE IF ~verify_password(password, users[u].password_hash)
    THEN Verdict(401, "Invalid email or password")
    ELSE Pass

\* the request arrives; the clients have room for the token it may return
LoginBegin(c, email, password) ==
    /\ \/ login(email, password).status # 200
       \/ Cardinality(issued) + Cardinality(Signing) < MaxTokens
    /\ Start(c, "login", [email |-> email, password |-> password])

\* lines 174-180: the lookup by email; its reply is checked when the
\* handler resumes
LoginFind(c) ==
    LET v == login(calls[c].arg.email, calls[c].arg.password) IN
    /\ At(c, "login", "run")
    /\ IF v.status = 200
       THEN Keep(c, "token", Str("u", FindByEmail(calls[c].arg.email)))
       ELSE Finish(c, v.status, v.detail)
    /\ Reads

\* lines 184-195: after the lookup's reply, the token and the response
LoginToken(c) ==
    LET out == create_access_token(calls[c].out, now) IN
    /\ At(c, "login", "token")
    /\ Cardinality(issued \cup {Issue(out, calls[c].arg.email)}) <= MaxTokens
    /\ issued' = issued \cup {Issue(out, calls[c].arg.email)}
    /\ FinishWith(c, 200, "", out)
    /\ UNCHANGED <<users, posts, comments, nextPost, nextComment, now, secrets>>

(***************************************************************************)
(* Time passes, between requests and while requests wait for the store.    *)
(***************************************************************************)
Tick ==
    /\ \E t \in Instants : t > now /\ now' = t
    /\ UNCHANGED <<users, posts, comments, nextPost, nextComment, issued, secrets, resp,
                   calls>>

(***************************************************************************)
(* GET /me, lines 197-219                                                  *)
(***************************************************************************)
GetMeBegin(c, tok) == Begin(c, "get_me", tok, None)

\* lines 206-219: count_documents, and the response
GetMeCount(c) ==
    /\ At(c, "get_me", "run")
    /\ Finish(c, 200, "")
    /\ Reads

(***************************************************************************)
(* PUT /me, lines 221-257                                                  *)
(***************************************************************************)
ProfileFields == {"username", "full_name", "profile_pic", "bio"}

Patch(u, f, p, b) == [username |-> u, full_name |-> f, profile_pic |-> p, bio |-> b]

\* `if update_data.username`: None and the empty string are both falsy
Truthy(v) == v # None /\ v # ""

\* line 226: the username is looked up when it is supplied and differs from
\* the one in the document get_current_user returned
ChecksUsername(current_user, patch) ==
    Truthy(patch.username) /\ patch.username # current_user.username

\* lines 226-229: the guard on a changed username
UsernameConflict(current_user, patch) ==
    ChecksUsername(current_user, patch) /\ FindByUsername(patch.username) # 0

\* line 232: update_dict holds the fields that are not None
update_dict(patch) == {f \in ProfileFields : patch[f] # None}

\* mutant: $set writes every field of the request, the null ones too
ApplyPatch_nulls(doc, patch) ==
    [f \in DOMAIN doc |-> IF f \in ProfileFields THEN patch[f] ELSE doc[f]]

\* {"$set": update_dict}: only the fields that are not None are written
ApplyPatch(doc, patch) ==
    [f \in DOMAIN doc |->
        IF f \in ProfileFields /\ patch[f] # None THEN patch[f] ELSE doc[f]]

UpdateProfileBegin(c, tok, patch) == Begin(c, "update_profile", tok, patch)

\* lines 226-229: the lookup by username
UpdateProfileLookup(c) ==
    /\ At(c, "update_profile", "run")
    /\ ChecksUsername(calls[c].cur, calls[c].arg)
    /\ IF FindByUsername(calls[c].arg.username) # 0
       THEN Finish(c, 400, "Username already taken")
       ELSE Resume(c, "set")
    /\ Reads

\* lines 232-237: update_one, when update_dict is not empty
UpdateProfileSet(c) ==
    /\ \/ At(c, "update_profile", "set")
       \/ /\ At(c, "update_profile", "run")
          /\ ~ChecksUsername(calls[c].cur, calls[c].arg)
          /\ update_dict(calls[c].arg) # {}
    /\ users' = [users EXCEPT ![calls[c].actor] = ApplyPatch(@, calls[c].arg)]
    /\ Resume(c, "reread")
    /\ UNCHANGED <<posts, comments, nextPost, nextComment, now, issued, secrets>>

\* line 240: the document is read again
UpdateProfileReread(c) ==
    /\ \/ At(c, "update_profile", "reread")
       \/ /\ At(c, "update_profile", "run")
          /\ ~ChecksUsername(calls[c].cur, calls[c].arg)
          /\ update_dict(calls[c].arg) = {}
    /\ Resume(c, "count")
    /\ Reads

\* lines 244-257: count_documents, and the response
UpdateProfileCount(c) ==
    /\ At(c, "update_profile", "count")
    /\ Finish(c, 200, "")
    /\ Reads

(***************************************************************************)
(* GET /users/{user_id}, lines 260-284                                     *)
(***************************************************************************)
\* lines 262-264: the guard on the lookup of the target
get_user(user_id) ==
    IF ~ValidId(user_id) THEN ServerError
    ELSE IF FindUser(user_id) = 0 THEN Verdict(404, "User not found")
    ELSE Pass

GetUserBegin(c, tok, id) == Begin(c, "get_user", tok, id)

\* lines 262-264: the lookup of the target
GetUserFind(c) ==
    /\ At(c, "get_user", "run")
    /\ Guard(c, get_user(calls[c].arg), "count")
    /\ Reads

\* lines 266-284: count_documents, and the response
GetUserCount(c) ==
    /\ At(c, "get_user", "count")
    /\ Finish(c, 200, "")
    /\ Reads

(***************************************************************************)
(* GET /users/search/{query}, lines 286-309                                *)
(***************************************************************************)
\* the store compiles the query as a regular expression: "a" and "a.c" are
\* patterns, "(", "[" and "*" are not
Queries == {"a", "a.c", "(", "[", "*"}
ValidRegex(query) == query \in {"a", "a.c"}

\* lines 288-293: the store refuses a query that is no regular expression
search_users(query) == IF ValidRegex(query) THEN Pass ELSE ServerError

SearchUsersBegin(c, tok, query) == Begin(c, "search_users", tok, query)

\* lines 288-309: find with $regex, and the response
SearchUsersFind(c) ==
    LET v == search_users(calls[c].arg) IN
    /\ At(c, "search_users", "run")
    /\ Finish(c, v.status, v.detail)
    /\ Reads

(***************************************************************************)
(* POST /users/{user_id}/follow, lines 311-339                             *)
(***************************************************************************)
\* mutant: the self-follow guard is missing
SelfFollow_never(current_user_id, user_id) == FALSE

\* line 315: the self-follow guard compares the two strings
SelfFollow(current_user_id, user_id) == current_user_id = user_id

\* line 324: the duplicate guard looks the string up in the following list
\* of the document get_current_user returned
AlreadyFollowing(current_user, user_id) == user_id \in Range(current_user.following)

\* lines 328-331: the first write, on the actor's document
AddFollowing(u, cur, user_id) ==
    [u EXCEPT ![cur].following = AddToSet(@, user_id)]

\* lines 334-337: the second write, on the document ObjectId(user_id) finds
AddFollower(u, user_id, current_user_id) ==
    LET target == FindUser(user_id) IN
    IF target = 0 THEN u
    ELSE [u EXCEPT ![target].followers = AddToSet(@, current_user_id)]

\* lines 315-325: the guards, on the reply to the lookup of the target
follow_user(current_user_id, current_user, user_id) ==
    IF SelfFollow(current_user_id, user_id)
    THEN Verdict(400, "Cannot follow yourself")
    ELSE IF ~ValidId(user_id) THEN ServerError
    ELSE IF FindUser(user_id) = 0 THEN Verdict(404, "User not found")
    ELSE IF AlreadyFollowing(current_user, user_id)
    THEN Verdict(400, "Already following this user")
    ELSE Pass

FollowBegin(c, tok, id) == Begin(c, "follow_user", tok, id)

\* lines 315-325: the lookup of the target, and the guards
FollowFindTarget(c) ==
    /\ At(c, "follow_user", "run")
    /\ Guard(c, follow_user(Me(c), calls[c].cur, calls[c].arg), "following")
    /\ Reads

\* lines 328-331
FollowAddFollowing(c) ==
    /\ At(c, "follow_user", "following")
    /\ users' = AddFollowing(users, calls[c].actor, calls[c].arg)
    /\ Resume(c, "followers")
    /\ UNCHANGED <<posts, comments, nextPost, nextComment, now, issued, secrets>>

\* lines 334-339
FollowAddFollower(c) ==
    /\ At(c, "follow_user", "followers")
    /\ users' = AddFollower(users, calls[c].arg, Me(c))
    /\ Finish(c, 200, "Successfully followed user")
    /\ UNCHANGED <<posts, comments, nextPost, nextComment, now, issued, secrets>>

(***************************************************************************)
(* DELETE /users/{user_id}/follow, lines 341-357                           *)
(***************************************************************************)
\* lines 345-348: the first write, on the actor's document
PullFollowing(u, cur, user_id) ==
    [u EXCEPT ![cur].following = Pull(@, user_id)]

\* lines 351-354: the second write, on the document ObjectId(user_id) finds
PullFollower(u, user_id, current_user_id) ==
    LET target == FindUser(user_id) IN
    IF target = 0 THEN u
    ELSE [u EXCEPT ![target].followers = Pull(@, current_user_id)]

UnfollowBegin(c, tok, id) == Begin(c, "unfollow_user", tok, id)

\* lines 345-348, and line 352 when ObjectId(user_id) raises
UnfollowPullFollowing(c) ==
    /\ At(c, "unfollow_user", "run")
    /\ users' = PullFollowing(users, calls[c].actor, calls[c].arg)
    /\ IF ValidId(calls[c].arg)
       THEN Resume(c, "followers")
       ELSE Finish(c, 500, "Internal Server Error")
    /\ UNCHANGED <<posts, comments, nextPost, nextComment, now, issued, secrets>>

\* lines 351-357
UnfollowPullFollower(c) ==
    /\ At(c, "unfollow_user", "followers")
    /\ users' = PullFollower(users, calls[c].arg, Me(c))
    /\ Finish(c, 200, "Successfully unfollowed user")
    /\ UNCHANGED <<posts, comments, nextPost, nextComment, now, issued, secrets>>

(***************************************************************************)
(* POST /posts, lines 360-389                                              *)
(***************************************************************************)
\* lines 364-370: post_dict; created_at is the instant the dict was built
NewPost(current_user_id, created_at) ==
    [user_id |-> current_user_id, likes |-> <<>>, created_at |-> created_at]

\* create_post requests that have not inserted their post yet
Posting == {c \in Slots : calls[c].op = "create_post" /\ calls[c].pc \in {"auth", "run"}}

\* the request arrives; the store has room for the post it may insert
CreatePostBegin(c, tok) ==
    /\ \/ jwt_decode(tok, now) # "payload"
       \/ nextPost + Cardinality(Posting) < MaxPosts
    /\ Begin(c, "create_post", tok, None)

\* lines 372-373: the insert of the document built before the await
CreatePostInsert(c) ==
    /\ At(c, "create_post", "run")
    /\ posts' = Insert(posts, nextPost + 1, NewPost(Me(c), calls[c].created_at))
    /\ nextPost' = nextPost + 1
    /\ Keep(c, "count", Str("p", nextPost + 1))
    /\ UNCHANGED <<users, comments, nextComment, now, issued, secrets>>

\* lines 376-389: count_documents, and the response
CreatePostCount(c) ==
    /\ At(c, "create_post", "count")
    /\ FinishWith(c, 200, "", calls[c].out)
    /\ Reads

(***************************************************************************)
(* GET /posts/{post_id}, lines 391-417                                     *)
(***************************************************************************)
\* lines 393-395: the guard on the lookup of the post
get_post(post_id) ==
    IF ~ValidId(post_id) THEN ServerError
    ELSE IF FindPost(post_id) = 0 THEN Verdict(404, "Post not found")
    ELSE Pass

GetPostBegin(c, tok, id) == Begin(c, "get_post", tok, id)

\* lines 393-395: the lookup of the post
GetPostFind(c) ==
    /\ At(c, "get_post", "run")
    /\ Guard(c, get_post(calls[c].arg), "author")
    /\ Reads

\* line 398: the lookup of the post's author
GetPostAuthor(c) ==
    /\ At(c, "get_post", "author")
    /\ Resume(c, "count")
    /\ Reads

\* lines 404-417: count_documents, and the response
GetPostCount(c) ==
    /\ At(c, "get_post", "count")
    /\ Finish(c, 200, "")
    /\ Reads

(***************************************************************************)
(* GET /feed, lines 419-456                                                *)
(***************************************************************************)
\* mutant: the actor's own id is left out of the author list
FeedAuthors_following_only(current_user, current_user_id) ==
    Range(current_user.following)

\* lines 422-424: user_ids = following + [current_user_id], the following
\* list being that of the document get_current_user returned
FeedAuthors(current_user, current_user_id) ==
    Range(current_user.following) \cup {current_user_id}

\* line 428: find({"user_id": {"$in": user_ids}}) compares the strings
FeedMatches(user_ids) == {p \in DOMAIN posts : posts[p].user_id \in user_ids}

\* line 430: sort("created_at", -1); the store fixes no order among posts
\* of one created_at, so every descending arrangement is a possible result
RECURSIVE NewestFirst(_)
NewestFirst(S) ==
    IF S = {} THEN {<<>>}
    ELSE UNION {{<<p>> \o rest : rest \in NewestFirst(S \ {p})} :
                   p \in {n \in S : \A q \in S :
                                       posts[n].created_at >= posts[q].created_at}}

\* line 430: skip(skip).limit(limit).to_list(limit), for skip >= 0, limit > 0
SkipLimit(s, skip, limit) ==
    SubSeq(s, skip + 1, IF skip + limit < Len(s) THEN skip + limit ELSE Len(s))

\* lines 432-456: one Post per document, in the cursor's order, with its id
FeedItems(s) == [i \in DOMAIN s |-> Str("p", s[i])]

\* a loop over the documents a cursor returned: n are left to be filled in
Loop(c, pc, out, n) ==
    calls' = [calls EXCEPT ![c].pc = pc, ![c].out = out, ![c].i = n] /\ UNCHANGED resp

GetFeedBegin(c, tok, skip, limit) ==
    Begin(c, "get_feed", tok, [skip |-> skip, limit |-> limit])

\* lines 422-430: the page of posts
GetFeedFind(c) ==
    /\ At(c, "get_feed", "run")
    /\ \E sorted \in NewestFirst(FeedMatches(FeedAuthors(calls[c].cur, Me(c)))) :
          LET page == FeedItems(SkipLimit(sorted, calls[c].arg.skip,
                                          calls[c].arg.limit))
          IN IF Len(page) = 0
             THEN FinishWith(c, 200, "", page)
             ELSE Loop(c, "author", page, Len(page))
    /\ Reads

\* line 435: the lookup of a post's author
GetFeedAuthor(c) ==
    /\ At(c, "get_feed", "author")
    /\ Resume(c, "count")
    /\ Reads

\* lines 441-456: count_documents for a post; after the last, the response
GetFeedCount(c) ==
    /\ At(c, "get_feed", "count")
    /\ IF calls[c].i = 1
       THEN FinishWith(c, 200, "", calls[c].out)
       ELSE Loop(c, "author", calls[c].out, calls[c].i - 1)
    /\ Reads

(***************************************************************************)
(* GET /users/{user_id}/posts, lines 458-491                               *)
(***************************************************************************)
\* line 461: find({"user_id": user_id}) compares the strings
PostsOf(user_id) == {p \in DOMAIN posts : posts[p].user_id = user_id}

GetUserPostsBegin(c, tok, id) == Begin(c, "get_user_posts", tok, id)

\* lines 461-463: the user's posts
GetUserPostsFind(c) ==
    /\ At(c, "get_user_posts", "run")
    /\ Loop(c, "author", NoTok, Cardinality(PostsOf(calls[c].arg)))
    /\ Reads

\* lines 466-473: the lookup of the user, for which ObjectId(user_id) may
\* raise; with no post, the response
GetUserPostsAuthor(c) ==
    /\ At(c, "get_user_posts", "author")
    /\ IF ~ValidId(calls[c].arg) THEN Finish(c, 500, "Internal Server Error")
       ELSE IF calls[c].i = 0 THEN Finish(c, 200, "")
       ELSE Resume(c, "count")
    /\ Reads

\* lines 476-491: count_documents for a post; after the last, the response
GetUserPostsCount(c) ==
    /\ At(c, "get_user_posts", "count")
    /\ IF calls[c].i = 1
       THEN Finish(c, 200, "")
       ELSE Loop(c, "count", NoTok, calls[c].i - 1)
    /\ Reads

(***************************************************************************)
(* DELETE /posts/{post_id}, lines 493-507                                  *)
(***************************************************************************)
\* mutant: the ownership guard on a post is missing
NotPostOwner_never(post, current_user_id) == FALSE

\* line 501: the ownership guard on a post
NotPostOwner(post, current_user_id) == post.user_id # current_user_id

\* delete_many({"post_id": post_id}) matches the stored string
CommentsOf(post_id) == {c \in DOMAIN comments : comments[c].post_id = post_id}

\* the reply a handler has decided on, and whether it goes on to its writes
Decision(status, detail, go) == [status |-> status, detail |-> detail, go |-> go]

\* mutant: the deletes run before the ownership guard is answered
delete_post_then_check(current_user_id, post_id) ==
    LET p == FindPost(post_id) IN
    IF ~ValidId(post_id) THEN Decision(500, "Internal Server Error", FALSE)
    ELSE IF p = 0 THEN Decision(404, "Post not found", FALSE)
    ELSE IF NotPostOwner(posts[p], current_user_id)
    THEN Decision(403, "Not authorized to delete this post", TRUE)
    ELSE Decision(200, "Post deleted successfully", TRUE)

\* lines 497-502: the guards, on the reply to the lookup of the post; the
\* deletes follow when the guards pass
delete_post(current_user_id, post_id) ==
    LET p == FindPost(post_id) IN
    IF ~ValidId(post_id) THEN Decision(500, "Internal Server Error", FALSE)
    ELSE IF p = 0 THEN Decision(404, "Post not found", FALSE)
    ELSE IF NotPostOwner(posts[p], current_user_id)
    THEN Decision(403, "Not authorized to delete this post", FALSE)
    ELSE Decision(200, "Post deleted successfully", TRUE)

DeletePostBegin(c, tok, id) == Begin(c, "delete_post", tok, id)

\* lines 497-502: the lookup of the post, and the guards
DeletePostFind(c) ==
    LET d == delete_post(Me(c), calls[c].arg) IN
    /\ At(c, "delete_post", "run")
    /\ IF d.go THEN Keep(c, "delete_one", d) ELSE Finish(c, d.status, d.detail)
    /\ Reads

\* line 504: delete_one
DeletePostDeleteOne(c) ==
    /\ At(c, "delete_post", "delete_one")
    /\ posts' = Remove(posts, {FindPost(calls[c].arg)})
    /\ Resume(c, "delete_many")
    /\ UNCHANGED <<users, comments, nextPost, nextComment, now, issued, secrets>>

\* lines 505-507: delete_many, and the response
DeletePostDeleteMany(c) ==
    /\ At(c, "delete_post", "delete_many")
    /\ comments' = Remove(comments, CommentsOf(calls[c].arg))
    /\ Finish(c, calls[c].out.status, calls[c].out.detail)
    /\ UNCHANGED <<users, posts, nextPost, nextComment, now, issued, secrets>>

(***************************************************************************)
(* POST and DELETE /posts/{post_id}/like, lines 510-537                    *)
(***************************************************************************)
\* mutant: the duplicate-like guard is missing
AlreadyLiked_never(post, current_user_id) == FALSE

\* line 518: the duplicate guard looks the actor's id up in the post's list
AlreadyLiked(post, current_user_id) == current_user_id \in Range(post.likes)

\* lines 514-519: the guards, on the reply to the lookup of the post
like_post(current_user_id, post_id) ==
    LET p == FindPost(post_id) IN
    IF ~ValidId(post_id) THEN ServerError
    ELSE IF p = 0 THEN Verdict(404, "Post not found")
    ELSE IF AlreadyLiked(posts[p], current_user_id)
    THEN Verdict(400, "Already liked this post")
    ELSE Pass

\* lines 521-524: the update of the document ObjectId(post_id) finds
AddLike(p, post_id, current_user_id) ==
    LET target == FindPost(post_id) IN
    IF target = 0 THEN p
    ELSE [p EXCEPT ![target].likes = AddToSet(@, current_user_id)]

\* lines 532-535: the update of the document ObjectId(post_id) finds
PullLike(p, post_id, current_user_id) ==
    LET target == FindPost(post_id) IN
    IF target = 0 THEN p
    ELSE [p EXCEPT ![target].likes = Pull(@, current_user_id)]

LikeBegin(c, tok, id) == Begin(c, "like_post", tok, id)

\* lines 514-519: the lookup of the post, and the guards
LikeFind(c) ==
    /\ At(c, "like_post", "run")
    /\ Guard(c, like_post(Me(c), calls[c].arg), "add")
    /\ Reads

\* lines 521-526
LikeAddToSet(c) ==
    /\ At(c, "like_post", "add")
    /\ posts' = AddLike(posts, calls[c].arg, Me(c))
    /\ Finish(c, 200, "Post liked successfully")
    /\ UNCHANGED <<users, comments, nextPost, nextComment, now, issued, secrets>>

UnlikeBegin(c, tok, id) == Begin(c, "unlike_post", tok, id)

\* lines 532-537: ObjectId(post_id) may raise; the update, and the response
UnlikePull(c) ==
    /\ At(c, "unlike_post", "run")
    /\ IF ValidId(calls[c].arg)
       THEN /\ posts' = PullLike(posts, calls[c].arg, Me(c))
            /\ Finish(c, 200, "Post unliked successfully")
       ELSE /\ posts' = posts
            /\ Finish(c, 500, "Internal Server Error")
    /\ UNCHANGED <<users, comments, nextPost, nextComment, now, issued, secrets>>

(***************************************************************************)
(* POST and GET /posts/{post_id}/comments, DELETE /comments/{comment_id},  *)
(* lines 540-601                                                           *)
(***************************************************************************)
\* lines 548-553: comment_dict; the comment keeps the path parameter as it
\* was spelled, and created_at is the instant the dict was built
NewComment(current_user_id, post_id, created_at) ==
    [post_id |-> post_id, user_id |-> current_user_id, created_at |-> created_at]

\* lines 542-544: the guard on the lookup of the post
create_comment(post_id) ==
    IF ~ValidId(post_id) THEN ServerError
    ELSE IF FindPost(post_id) = 0 THEN Verdict(404, "Post not found")
    ELSE Pass

\* create_comment requests that have not inserted their comment yet
Commenting == {c \in Slots : calls[c].op = "create_comment"}

\* the request arrives; the store has room for the comment it may insert
CreateCommentBegin(c, tok, id) ==
    /\ \/ jwt_decode(tok, now) # "payload"
       \/ nextComment + Cardinality(Commenting) < MaxComments
    /\ Begin(c, "create_comment", tok, id)

\* lines 542-553: the lookup of the post; for a post that is found the
\* handler builds comment_dict (line 552: datetime.utcnow()) and awaits the
\* insert
CreateCommentFind(c) ==
    LET v == create_comment(calls[c].arg) IN
    /\ At(c, "create_comment", "run")
    /\ IF v.status = 200
       THEN /\ calls' = [calls EXCEPT ![c].pc = "insert", ![c].created_at = now]
            /\ UNCHANGED resp
       ELSE Finish(c, v.status, v.detail)
    /\ Reads

\* lines 555-565: the insert of the document built before the await, and
\* the response
CreateCommentInsert(c) ==
    /\ At(c, "create_comment", "insert")
    /\ comments' = Insert(comments, nextComment + 1,
                          NewComment(Me(c), calls[c].arg, calls[c].created_at))
    /\ nextComment' = nextComment + 1
    /\ FinishWith(c, 200, "", Str("c", nextComment + 1))
    /\ UNCHANGED <<users, posts, nextPost, now, issued, secrets>>

GetCommentsBegin(c, tok, id) == Begin(c, "get_comments", tok, id)

\* lines 569-571: the comments of the post; with none, the response
GetCommentsFind(c) ==
    /\ At(c, "get_comments", "run")
    /\ IF CommentsOf(calls[c].arg) = {}
       THEN Finish(c, 200, "")
       ELSE Loop(c, "author", NoTok, Cardinality(CommentsOf(calls[c].arg)))
    /\ Reads

\* lines 575-586: the lookup of a comment's author; after the last, the
\* response
GetCommentsAuthor(c) ==
    /\ At(c, "get_comments", "author")
    /\ IF calls[c].i = 1
       THEN Finish(c, 200, "")
       ELSE Loop(c, "author", NoTok, calls[c].i - 1)
    /\ Reads

\* mutant: the guard lets everyone but the comment's author through
NotCommentOwner_inverted(comment, current_user_id) == comment.user_id = current_user_id

\* line 596: the ownership guard on a comment
NotCommentOwner(comment, current_user_id) == comment.user_id # current_user_id

\* lines 592-597: the guards, on the reply to the lookup of the comment
delete_comment(current_user_id, comment_id) ==
    LET c == FindComment(comment_id) IN
    IF ~ValidId(comment_id) THEN ServerError
    ELSE IF c = 0 THEN Verdict(404, "Comment not found")
    ELSE IF NotCommentOwner(comments[c], current_user_id)
    THEN Verdict(403, "Not authorized to delete this comment")
    ELSE Pass

DeleteCommentBegin(c, tok, id) == Begin(c, "delete_comment", tok, id)

\* lines 592-597: the lookup of the comment, and the guards
DeleteCommentFind(c) ==
    /\ At(c, "delete_comment", "run")
    /\ Guard(c, delete_comment(Me(c), calls[c].arg), "delete_one")
    /\ Reads

\* lines 599-601: delete_one, and the response
DeleteCommentDeleteOne(c) ==
    /\ At(c, "delete_comment", "delete_one")
    /\ comments' = Remove(comments, {FindComment(calls[c].arg)})
    /\ Finish(c, 200, "Comment deleted successfully")
    /\ UNCHANGED <<users, posts, nextPost, nextComment, now, issued, secrets>>

(***************************************************************************)
(* The steps of each handler after its request has arrived.                *)
(***************************************************************************)
RegisterSteps(c) ==
    \/ RegisterCheckEmail(c)
    \/ RegisterCheckUsername(c)
    \/ RegisterInsert(c)
    \/ RegisterToken(c)

LoginSteps(c) == LoginFind(c) \/ LoginToken(c)

UpdateProfileSteps(c) ==
    \/ UpdateProfileLookup(c)
    \/ UpdateProfileSet(c)
    \/ UpdateProfileReread(c)
    \/ UpdateProfileCount(c)

FollowSteps(c) == FollowFindTarget(c) \/ FollowAddFollowing(c) \/ FollowAddFollower(c)

UnfollowSteps(c) == UnfollowPullFollowing(c) \/ UnfollowPullFollower(c)

CreatePostSteps(c) == CreatePostInsert(c) \/ CreatePostCount(c)

DeletePostSteps(c) ==
    DeletePostFind(c) \/ DeletePostDeleteOne(c) \/ DeletePostDeleteMany(c)

LikeSteps(c) == LikeFind(c) \/ LikeAddToSet(c)

CreateCommentSteps(c) == CreateCommentFind(c) \/ CreateCommentInsert(c)

DeleteCommentSteps(c) == DeleteCommentFind(c) \/ DeleteCommentDeleteOne(c)

GetFeedSteps(c) == GetFeedFind(c) \/ GetFeedAuthor(c) \/ GetFeedCount(c)

(***************************************************************************)
(* Spec: the token life cycle from an empty store.  Two fixed registrants, *)
(* logins with a right and a wrong password, and two authenticated         *)
(* endpoints called with every presentable token.  Requests are served one *)
(* at a time; the clock moves between requests and while a request waits   *)
(* for the store.                                                          *)
(***************************************************************************)
RegistrantA == [email |-> "a@x.com", username |-> "alice",
                full_name |-> "Full Name", password |-> PwShortA]
RegistrantB == [email |-> "b@x.com", username |-> "", full_name |-> None,
                password |-> PwLongX]
Registrants == {RegistrantA, RegistrantB}

UsernamePatches == {Patch(u, None, None, None) : u \in Usernames \cup {None}}

Next ==
    \/ Ready /\ \E c \in Slots, r \in Registrants : RegisterBegin(c, r)
    \/ \E c \in Slots : RegisterSteps(c)
    \/ Ready /\ \E c \in Slots, e \in Emails, p \in {PwShortA, PwLongX} :
                       LoginBegin(c, e, p)
    \/ \E c \in Slots : LoginSteps(c)
    \/ Tick
    \/ Ready /\ \E c \in Slots, t \in Presentable : GetMeBegin(c, t)
    \/ Ready /\ \E c \in Slots, t \in IssuedTokens \cup {Malformed},
                       patch \in UsernamePatches : UpdateProfileBegin(c, t, patch)
    \/ \E c \in Slots : Refuse(c)
    \/ \E c \in Slots : Authenticate(c)
    \/ \E c \in Slots : GetMeCount(c)
    \/ \E c \in Slots : UpdateProfileSteps(c)
    \/ Deliver

Spec == Init /\ [][Next]_vars

(***************************************************************************)
(* SpecCred: credentials from an empty store.  Registration and login with *)
(* every email, username and password of the model, one request at a time, *)
(* at a fixed instant.                                                     *)
(***************************************************************************)
NextCred ==
    \/ Ready /\ \E c \in Slots, e \in Emails, u \in Usernames, p \in Passwords :
          RegisterBegin(c, [email |-> e, username |-> u, full_name |-> None,
                            password |-> p])
    \/ \E c \in Slots : RegisterSteps(c)
    \/ Ready /\ \E c \in Slots, e \in Emails, p \in Passwords : LoginBegin(c, e, p)
    \/ \E c \in Slots : LoginSteps(c)
    \/ Deliver

SpecCred == Init /\ [][NextCred]_vars

(***************************************************************************)
(* The store the social specifications start from.  It is the state Spec   *)
(* reaches when A registers at instant 0, thirty days pass, A logs in and  *)
(* B registers: two users, A's first token expired, two tokens in force.   *)
(***************************************************************************)
TokenAOld == create_access_token(Str("u", 1), 0)
TokenA == create_access_token(Str("u", 1), ExpireTicks)
TokenB == create_access_token(Str("u", 2), ExpireTicks)

Enrolled(r) == NewUser(r.email, r.username, r.full_name, r.password)

SocialInit ==
    /\ users = <<Enrolled(RegistrantA), Enrolled(RegistrantB)>>
    /\ secrets = <<RegistrantA.password, RegistrantB.password>>
    /\ posts = <<>>
    /\ comments = <<>>
    /\ nextPost = 0
    /\ nextComment = 0
    /\ now = ExpireTicks
    /\ issued = {[tok |-> TokenAOld, email |-> RegistrantA.email, at |-> 0],
                 [tok |-> TokenA, email |-> RegistrantA.email, at |-> ExpireTicks],
                 [tok |-> TokenB, email |-> RegistrantB.email, at |-> ExpireTicks]}
    /\ resp = Response("register", NoTok, 0, RegistrantB, 200, "", TokenB)
    /\ calls = NoCalls

\* the tokens the clients hold: TokenA and TokenB authenticate, TokenAOld
\* has expired
HeldTokens == IssuedTokens

(***************************************************************************)
(* SpecFollow: follow and unfollow requests by both users, one at a time,  *)
(* with the canonical and the upper-case spelling of the first user's      *)
(* identifier, the second user's identifier, an identifier of no user and  *)
(* a string that is no identifier.                                         *)
(***************************************************************************)
UserIdStrings ==
    {Str("u", 1), Upper(Str("u", 1)), Str("u", 2), Str("u", MaxUsers + 1), BadId}

NextFollow ==
    \/ Quiescent /\ \E c \in Slots, t \in HeldTokens, id \in UserIdStrings :
                       FollowBegin(c, t, id)
    \/ Quiescent /\ \E c \in Slots, t \in HeldTokens, id \in UserIdStrings :
                       UnfollowBegin(c, t, id)
    \/ \E c \in Slots : Refuse(c)
    \/ \E c \in Slots : Authenticate(c)
    \/ \E c \in Slots : FollowSteps(c)
    \/ \E c \in Slots : UnfollowSteps(c)

SpecFollow == SocialInit /\ [][NextFollow]_vars

(***************************************************************************)
(* SpecFollowRace: follow and unfollow requests of both users for each     *)
(* other and for themselves, in canonical spelling, up to MaxCalls of them *)
(* in progress at a time, interleaved at every await.                      *)
(***************************************************************************)
LiveTokens == {TokenA, TokenB}
CanonicalUserIds == {Str("u", 1), Str("u", 2)}

NextFollowRace ==
    \/ \E c \in Slots, t \in LiveTokens, id \in CanonicalUserIds : FollowBegin(c, t, id)
    \/ \E c \in Slots, t \in LiveTokens, id \in CanonicalUserIds : UnfollowBegin(c, t, id)
    \/ \E c \in Slots : Authenticate(c)
    \/ \E c \in Slots : FollowSteps(c)
    \/ \E c \in Slots : UnfollowSteps(c)

SpecFollowRace == SocialInit /\ [][NextFollowRace]_vars

(***************************************************************************)
(* SpecContent: posts and comments by both users, one request at a time.   *)
(* A post or a comment is addressed by the canonical or the upper-case     *)
(* spelling of an identifier the store has handed out, or by a string that *)
(* is none.                                                                *)
(***************************************************************************)
PostIdStrings ==
    {Str("p", n) : n \in 1..MaxPosts} \cup {Upper(Str("p", 1)), BadId}

CommentIdStrings ==
    {Str("c", n) : n \in 1..MaxComments} \cup {Upper(Str("c", 1)), BadId}

NextContent ==
    \/ Ready /\ \E c \in Slots, t \in LiveTokens : CreatePostBegin(c, t)
    \/ Ready /\ \E c \in Slots, t \in LiveTokens, id \in PostIdStrings :
                       DeletePostBegin(c, t, id)
    \/ Ready /\ \E c \in Slots, t \in LiveTokens, id \in PostIdStrings :
                       CreateCommentBegin(c, t, id)
    \/ Ready /\ \E c \in Slots, t \in LiveTokens, id \in CommentIdStrings :
                       DeleteCommentBegin(c, t, id)
    \/ \E c \in Slots : Authenticate(c)
    \/ \E c \in Slots : CreatePostSteps(c)
    \/ \E c \in Slots : DeletePostSteps(c)
    \/ \E c \in Slots : CreateCommentSteps(c)
    \/ \E c \in Slots : DeleteCommentSteps(c)
    \/ Deliver

SpecContent == SocialInit /\ [][NextContent]_vars

(***************************************************************************)
(* SpecLikes: both users create, like, unlike and delete posts, addressed  *)
(* like the posts of SpecContent, one request at a time.                   *)
(***************************************************************************)
NextLikes ==
    \/ Quiescent /\ \E c \in Slots, t \in HeldTokens : CreatePostBegin(c, t)
    \/ Quiescent /\ \E c \in Slots, t \in HeldTokens, id \in PostIdStrings :
                       LikeBegin(c, t, id)
    \/ Quiescent /\ \E c \in Slots, t \in HeldTokens, id \in PostIdStrings :
                       UnlikeBegin(c, t, id)
    \/ Quiescent /\ \E c \in Slots, t \in HeldTokens, id \in PostIdStrings :
                       DeletePostBegin(c, t, id)
    \/ \E c \in Slots : Refuse(c)
    \/ \E c \in Slots : Authenticate(c)
    \/ \E c \in Slots : CreatePostSteps(c)
    \/ \E c \in Slots : LikeSteps(c)
    \/ \E c \in Slots : UnlikePull(c)
    \/ \E c \in Slots : DeletePostSteps(c)

SpecLikes == SocialInit /\ [][NextLikes]_vars

(***************************************************************************)
(* SpecChecks: the handlers that guard their writes, each called by every  *)
(* token the clients hold with arguments that make each guard fail and     *)
(* pass, one request at a time: registrations under a taken email or a     *)
(* taken username, a profile update to a taken username, follows of the    *)
(* first user and of no user, likes, comments and deletions of the first   *)
(* post and the first comment.                                             *)
(***************************************************************************)
TakenRegistrations ==
    {RegistrantA, [RegistrantA EXCEPT !.email = "c@x.com"]}

NextChecks ==
    \/ Ready /\ \E c \in Slots, r \in TakenRegistrations : RegisterBegin(c, r)
    \/ \E c \in Slots : RegisterCheckEmail(c)
    \/ \E c \in Slots : RegisterCheckUsername(c)
    \/ Ready /\ \E c \in Slots, t \in HeldTokens :
                       UpdateProfileBegin(c, t, Patch("alice", None, None, None))
    \/ Ready /\ \E c \in Slots, t \in HeldTokens,
                       id \in {Str("u", 1), Str("u", MaxUsers + 1)} :
                       FollowBegin(c, t, id)
    \/ Ready /\ \E c \in Slots, t \in HeldTokens : CreatePostBegin(c, t)
    \/ Ready /\ \E c \in Slots, t \in HeldTokens : LikeBegin(c, t, Str("p", 1))
    \/ Ready /\ \E c \in Slots, t \in HeldTokens :
                       CreateCommentBegin(c, t, Str("p", 1))
    \/ Ready /\ \E c \in Slots, t \in HeldTokens : DeletePostBegin(c, t, Str("p", 1))
    \/ Ready /\ \E c \in Slots, t \in HeldTokens :
                       DeleteCommentBegin(c, t, Str("c", 1))
    \/ \E c \in Slots : Refuse(c)
    \/ \E c \in Slots : Authenticate(c)
    \/ \E c \in Slots : UpdateProfileSteps(c)
    \/ \E c \in Slots : FollowSteps(c)
    \/ \E c \in Slots : CreatePostSteps(c)
    \/ \E c \in Slots : LikeSteps(c)
    \/ \E c \in Slots : CreateCommentSteps(c)
    \/ \E c \in Slots : DeletePostSteps(c)
    \/ \E c \in Slots : DeleteCommentSteps(c)
    \/ Deliver

SpecChecks == SocialInit /\ [][NextChecks]_vars

(***************************************************************************)
(* SpecFeed: feeds read page by page, one request at a time.  The store    *)
(* holds FeedPosts posts, written in turn by the two users, the second and *)
(* the third at the same instant; the users follow each other, under       *)
(* either spelling of the first user's id, delete their posts and read     *)
(* their feeds with every skip and several limits.                         *)
(***************************************************************************)
FeedPost(n) ==
    [user_id |-> Str("u", ((n - 1) % 2) + 1), likes |-> <<>>,
     created_at |-> ExpireTicks + (n \div 2)]

FeedInit ==
    /\ users = <<Enrolled(RegistrantA), Enrolled(RegistrantB)>>
    /\ secrets = <<RegistrantA.password, RegistrantB.password>>
    /\ posts = [n \in 1..FeedPosts |-> FeedPost(n)]
    /\ comments = <<>>
    /\ nextPost = FeedPosts
    /\ nextComment = 0
    /\ now = ExpireTicks + (FeedPosts \div 2)
    /\ issued = {[tok |-> TokenAOld, email |-> RegistrantA.email, at |-> 0],
                 [tok |-> TokenA, email |-> RegistrantA.email, at |-> ExpireTicks],
                 [tok |-> TokenB, email |-> RegistrantB.email, at |-> ExpireTicks]}
    /\ resp = NoResp
    /\ calls = NoCalls

FeedPostIds == {Str("p", n) : n \in 1..FeedPosts}
Skips == 0..FeedPosts
Limits == {1, 2, DefaultLimit}

NextFeed ==
    \/ Ready /\ \E c \in Slots, t \in LiveTokens,
                       id \in CanonicalUserIds \cup {Upper(Str("u", 1))} :
                       FollowBegin(c, t, id)
    \/ Ready /\ \E c \in Slots, t \in LiveTokens, id \in FeedPostIds :
                       DeletePostBegin(c, t, id)
    \/ Ready /\ \E c \in Slots, t \in LiveTokens, skip \in Skips, limit \in Limits :
                       GetFeedBegin(c, t, skip, limit)
    \/ \E c \in Slots : Authenticate(c)
    \/ \E c \in Slots : FollowSteps(c)
    \/ \E c \in Slots : DeletePostSteps(c)
    \/ \E c \in Slots : GetFeedSteps(c)
    \/ Deliver

SpecFeed == FeedInit /\ [][NextFeed]_vars

(***************************************************************************)
(* SpecProfile: profile updates by both users, one request at a time, with *)
(* no field, one field, some fields and all fields supplied, a taken       *)
(* username and an empty one, while the second user follows the first and  *)
(* a post and comments are written.                                        *)
(***************************************************************************)
ProfilePatches ==
    {Patch(None, None, None, None),
     Patch("alice", None, None, None),
     Patch("", None, None, ""),
     Patch(None, "New Name", "pic", None),
     Patch("amy", "New Name", "pic", "Bio")}

NextProfile ==
    \/ Ready /\ \E c \in Slots, t \in HeldTokens, patch \in ProfilePatches :
                       UpdateProfileBegin(c, t, patch)
    \/ Ready /\ \E c \in Slots : FollowBegin(c, TokenB, Str("u", 1))
    \/ Ready /\ \E c \in Slots : CreatePostBegin(c, TokenA)
    \/ Ready /\ \E c \in Slots : CreateCommentBegin(c, TokenB, Str("p", 1))
    \/ \E c \in Slots : Refuse(c)
    \/ \E c \in Slots : Authenticate(c)
    \/ \E c \in Slots : UpdateProfileSteps(c)
    \/ \E c \in Slots : FollowSteps(c)
    \/ \E c \in Slots : CreatePostSteps(c)
    \/ \E c \in Slots : CreateCommentSteps(c)
    \/ Deliver

SpecProfile == SocialInit /\ [][NextProfile]_vars

(***************************************************************************)
(* SpecUniqueRace: registrations and username changes from an empty store, *)
(* up to MaxCalls of them in progress at a time, interleaved at every      *)
(* await.  The registrations share an email or a username; the usernames   *)
(* are never empty.                                                        *)
(***************************************************************************)
RaceRegistrants ==
    {RegistrantA, [RegistrantA EXCEPT !.email = "b@x.com"],
     [RegistrantA EXCEPT !.email = "b@x.com", !.username = "amy"]}

RacePatches == {Patch("alice", None, None, None), Patch("amy", None, None, None)}

NextUniqueRace ==
    \/ \E c \in Slots, r \in RaceRegistrants : RegisterBegin(c, r)
    \/ \E c \in Slots : RegisterSteps(c)
    \/ \E c \in Slots, t \in IssuedTokens, patch \in RacePatches :
          UpdateProfileBegin(c, t, patch)
    \/ \E c \in Slots : Authenticate(c)
    \/ \E c \in Slots : UpdateProfileSteps(c)

SpecUniqueRace == Init /\ [][NextUniqueRace]_vars

(***************************************************************************)
(* SpecCommentRace: the first user writes a post; both users comment on it *)
(* and its author deletes it, up to MaxCalls requests in progress at a     *)
(* time, interleaved at every await; identifiers in canonical spelling.    *)
(***************************************************************************)
NextCommentRace ==
    \/ \E c \in Slots : CreatePostBegin(c, TokenA)
    \/ \E c \in Slots, t \in LiveTokens : CreateCommentBegin(c, t, Str("p", 1))
    \/ \E c \in Slots, t \in LiveTokens : DeletePostBegin(c, t, Str("p", 1))
    \/ \E c \in Slots : Authenticate(c)
    \/ \E c \in Slots : CreatePostSteps(c)
    \/ \E c \in Slots : CreateCommentSteps(c)
    \/ \E c \in Slots : DeletePostSteps(c)

SpecCommentRace == SocialInit /\ [][NextCommentRace]_vars

(***************************************************************************)
(* SpecGuardRace: the first user writes a post; both users follow each     *)
(* other and like the post, up to MaxCalls requests in progress at a time, *)
(* interleaved at every await.  Nothing is ever removed from a list.       *)
(***************************************************************************)
NextGuardRace ==
    \/ \E c \in Slots : CreatePostBegin(c, TokenA)
    \/ \E c \in Slots, t \in LiveTokens, id \in CanonicalUserIds : FollowBegin(c, t, id)
    \/ \E c \in Slots, t \in LiveTokens : LikeBegin(c, t, Str("p", 1))
    \/ \E c \in Slots : Authenticate(c)
    \/ \E c \in Slots : CreatePostSteps(c)
    \/ \E c \in Slots : FollowSteps(c)
    \/ \E c \in Slots : LikeSteps(c)

SpecGuardRace == SocialInit /\ [][NextGuardRace]_vars

(***************************************************************************)
(* SpecMembersRace: the first user has written a post.  While nobody       *)
(* follows anybody, both users like and unlike the post; while the post    *)
(* has no like, both users follow the first user, the second user by the   *)
(* canonical identifier, the first user by its upper-case spelling, which  *)
(* passes the self-follow guard, and the second user unfollows as well.    *)
(* Up to MaxCalls requests are in progress at a time, and the server runs  *)
(* their steps in every order, the lookups of get_current_user included.   *)
(* A client sends a request when the last response has been read.          *)
(***************************************************************************)
MemberFollows == {<<TokenA, Upper(Str("u", 1))>>, <<TokenB, Str("u", 1)>>}

\* the state SocialInit reaches when the first user has written a post
MembersInit ==
    /\ users = <<Enrolled(RegistrantA), Enrolled(RegistrantB)>>
    /\ secrets = <<RegistrantA.password, RegistrantB.password>>
    /\ posts = <<[user_id |-> Str("u", 1), likes |-> <<>>, created_at |-> ExpireTicks]>>
    /\ comments = <<>>
    /\ nextPost = 1
    /\ nextComment = 0
    /\ now = ExpireTicks
    /\ issued = {[tok |-> TokenAOld, email |-> RegistrantA.email, at |-> 0],
                 [tok |-> TokenA, email |-> RegistrantA.email, at |-> ExpireTicks],
                 [tok |-> TokenB, email |-> RegistrantB.email, at |-> ExpireTicks]}
    /\ resp = NoResp
    /\ calls = NoCalls

\* the requests in progress are all on the users' lists or all on the
\* post's list: the two kinds write different documents
InProgress(ops) == \A c \in Slots : calls[c].op \in ops \cup {"idle"}

NoLikes == \A p \in DOMAIN posts : posts[p].likes = <<>>
NoFollows == \A u \in UserIdx : users[u].following = <<>> /\ users[u].followers = <<>>

NextMembersRace ==
    \/ /\ InProgress({"follow_user", "unfollow_user"}) /\ Delivered /\ NoLikes
       /\ \E c \in Slots, f \in MemberFollows : FollowBegin(c, f[1], f[2])
    \/ /\ InProgress({"follow_user", "unfollow_user"}) /\ Delivered /\ NoLikes
       /\ \E c \in Slots : UnfollowBegin(c, TokenB, Str("u", 1))
    \/ /\ InProgress({"like_post", "unlike_post"}) /\ Delivered /\ NoFollows
       /\ \E c \in Slots, t \in LiveTokens : LikeBegin(c, t, Str("p", 1))
    \/ /\ InProgress({"like_post", "unlike_post"}) /\ Delivered /\ NoFollows
       /\ \E c \in Slots, t \in LiveTokens : UnlikeBegin(c, t, Str("p", 1))
    \/ \E c \in Slots : Authenticate(c)
    \/ \E c \in Slots : FollowSteps(c)
    \/ \E c \in Slots : UnfollowSteps(c)
    \/ \E c \in Slots : LikeSteps(c)
    \/ \E c \in Slots : UnlikePull(c)
    \/ Deliver

SpecMembersRace == MembersInit /\ [][NextMembersRace]_vars

(***************************************************************************)
(* SpecGate: every endpoint behind get_current_user, called by A, one      *)
(* request at a time, with a token in force and with tokens that must not  *)
(* pass: A's expired token, that token with its signature, its expiry or   *)
(* its subject altered, B's token with a wrong signature, and a string     *)
(* that is no token.                                                       *)
(***************************************************************************)
GatePatches == {Patch(None, None, None, "Bio")}

GateTokens ==
    {TokenA, TokenAOld, [TokenB EXCEPT !.sig = "bad"], Malformed}
    \cup Tampered(TokenAOld)

NextGate ==
    \/ Ready /\ \E c \in Slots, t \in GateTokens : GetMeBegin(c, t)
    \/ Ready /\ \E c \in Slots, t \in GateTokens, patch \in GatePatches :
                       UpdateProfileBegin(c, t, patch)
    \/ Ready /\ \E c \in Slots, t \in GateTokens : GetUserBegin(c, t, Str("u", 2))
    \/ Ready /\ \E c \in Slots, t \in GateTokens, q \in Queries :
                       SearchUsersBegin(c, t, q)
    \/ Ready /\ \E c \in Slots, t \in GateTokens : FollowBegin(c, t, Str("u", 2))
    \/ Ready /\ \E c \in Slots, t \in GateTokens : UnfollowBegin(c, t, Str("u", 2))
    \/ Ready /\ \E c \in Slots, t \in GateTokens : CreatePostBegin(c, t)
    \/ Ready /\ \E c \in Slots, t \in GateTokens : GetPostBegin(c, t, Str("p", 1))
    \/ Ready /\ \E c \in Slots, t \in GateTokens : GetFeedBegin(c, t, 0, DefaultLimit)
    \/ Ready /\ \E c \in Slots, t \in GateTokens : GetUserPostsBegin(c, t, Str("u", 1))
    \/ Ready /\ \E c \in Slots, t \in GateTokens : DeletePostBegin(c, t, Str("p", 1))
    \/ Ready /\ \E c \in Slots, t \in GateTokens : LikeBegin(c, t, Str("p", 1))
    \/ Ready /\ \E c \in Slots, t \in GateTokens : UnlikeBegin(c, t, Str("p", 1))
    \/ Ready /\ \E c \in Slots, t \in GateTokens : CreateCommentBegin(c, t, Str("p", 1))
    \/ Ready /\ \E c \in Slots, t \in GateTokens : GetCommentsBegin(c, t, Str("p", 1))
    \/ Ready /\ \E c \in Slots, t \in GateTokens : DeleteCommentBegin(c, t, Str("c", 1))
    \/ \E c \in Slots : Refuse(c)
    \/ \E c \in Slots : Authenticate(c)
    \/ \E c \in Slots : GetMeCount(c)
    \/ \E c \in Slots : UpdateProfileSet(c)
    \/ \E c \in Slots : UpdateProfileReread(c)
    \/ \E c \in Slots : UpdateProfileCount(c)
    \/ \E c \in Slots : GetUserFind(c)
    \/ \E c \in Slots : GetUserCount(c)
    \/ \E c \in Slots : SearchUsersFind(c)
    \/ \E c \in Slots : FollowSteps(c)
    \/ \E c \in Slots : UnfollowSteps(c)
    \/ \E c \in Slots : CreatePostSteps(c)
    \/ \E c \in Slots : GetPostFind(c)
    \/ \E c \in Slots : GetPostAuthor(c)
    \/ \E c \in Slots : GetPostCount(c)
    \/ \E c \in Slots : GetFeedSteps(c)
    \/ \E c \in Slots : GetUserPostsFind(c)
    \/ \E c \in Slots : GetUserPostsAuthor(c)
    \/ \E c \in Slots : GetUserPostsCount(c)
    \/ \E c \in Slots : DeletePostSteps(c)
    \/ \E c \in Slots : LikeSteps(c)
    \/ \E c \in Slots : UnlikePull(c)
    \/ \E c \in Slots : CreateCommentSteps(c)
    \/ \E c \in Slots : GetCommentsFind(c)
    \/ \E c \in Slots : GetCommentsAuthor(c)
    \/ \E c \in Slots : DeleteCommentSteps(c)
    \/ Deliver

SpecGate == SocialInit /\ [][NextGate]_vars

(***************************************************************************)
(* Properties.  A request is answered in the step that frees its slot: in  *)
(* that step calls[c] holds the request, the user it ran as and the store  *)
(* as the request found it, and resp' holds the response.                  *)
(***************************************************************************)
\* the step answers the request of handler `op` in slot c
Answers(c, op) == calls[c].op = op /\ calls'[c].op = "idle"

\* the id string of the user a request, or a response, ran as
ActorId(r) == Str("u", r.actor)

\* the step leaves the three collections as the request in slot c found them
Unwritten(c) ==
    /\ users' = calls[c].pre.users
    /\ posts' = calls[c].pre.posts
    /\ comments' = calls[c].pre.comments

\* the document an id string names in a collection as a request found it
FoundIn(docs, kind, s) == IF s.k = kind /\ s.n \in DOMAIN docs THEN s.n ELSE 0

(***************************************************************************)
(* Properties of the authentication core.                                  *)
(***************************************************************************)
AuthenticatedOps == {"get_me", "update_profile"}

\* the user a token was issued for: the one holding the email of the
\* register or login request that returned it
OwnerOf(i) == FindByEmail(i.email)

\* C3: every unexpired token that register or login returned for a user is
\* resolved by get_current_user to that user's record and to no other, in
\* every state reached by later registrations, logins, profile updates and
\* clock advances; an authenticated request that succeeded was made with an
\* issued token and ran as that token's user; and a request whose issued
\* token had not expired when it was checked ran as that token's user.
TokenResolvesToOwner ==
    /\ \A i \in issued : ~jwt_expired(i.tok, now) =>
          LET a == get_current_user(i.tok) IN
          /\ a.status = 200
          /\ a.uid = OwnerOf(i)
          /\ \A j \in UserIdx : users[j].email = i.email => j = a.uid
    /\ (resp.op \in AuthenticatedOps /\ resp.status = 200) =>
          \E i \in issued : i.tok = resp.tok /\ resp.actor = OwnerOf(i)
    /\ resp.op \in AuthenticatedOps =>
          \A i \in issued : (i.tok = resp.tok /\ ~jwt_expired(i.tok, resp.at)) =>
              resp.status # 401 /\ resp.actor = OwnerOf(i)

\* C3 witness: a token issued at the start is presented later, after the
\* other user registered and the owner changed their username, and resolves.
TokenResolvesWitness ==
    /\ resp.op = "get_me" /\ resp.status = 200
    /\ Len(users) = 2 /\ resp.at > 0
    /\ \E i \in issued : i.tok = resp.tok /\ i.at = 0 /\ i.email = "a@x.com"
    /\ users[resp.actor].email = "a@x.com"
    /\ users[resp.actor].username # "alice"

\* the instant a token issued at instant t stops being accepted
ExpiryInstant(t) == (WholeSecs(t) + ExpireSecs) * TicksPerSec

\* C5 as stated: a token issued at t is accepted at every instant strictly
\* before t + 30 days and rejected at every instant after it.
ExpiryIsIssueInstantPlus30Days ==
    \A i \in issued :
        /\ now < i.at + ExpireTicks => jwt_decode(i.tok, now) = "payload"
        /\ now > i.at + ExpireTicks => jwt_decode(i.tok, now) = "ExpiredSignatureError"

\* C5 amended: a token issued at t carries the expiry E = (t cut to whole
\* seconds) + 30 days; at every instant strictly before E it is accepted, at
\* every instant from E on (so at every instant after t + 30 days) it is
\* rejected as expired, whatever was requested in between: no leeway, and
\* no later login or other operation moves E.  The instant that counts for
\* a request is the one at which its token was checked.
ExpiryIsWholeSecondPlus30Days ==
    /\ \A i \in issued :
          /\ i.tok.exp = WholeSecs(i.at) + ExpireSecs
          /\ now < ExpiryInstant(i.at) => get_current_user(i.tok).status = 200
          /\ now >= ExpiryInstant(i.at) =>
                get_current_user(i.tok).detail = "Token has expired"
          /\ now > i.at + ExpireTicks =>
                get_current_user(i.tok).detail = "Token has expired"
    /\ resp.op \in AuthenticatedOps =>
          \A i \in issued : i.tok = resp.tok =>
              /\ resp.at < ExpiryInstant(i.at) => resp.status # 401
              /\ resp.at >= ExpiryInstant(i.at) =>
                    resp.status = 401 /\ resp.detail = "Token has expired"

\* C5 witness: a token issued between two whole seconds is refused with
\* "Token has expired" at an instant before 30 days have passed since its
\* issue, after its owner logged in again and holds a newer token.
ExpiryWitness ==
    /\ resp.op = "get_me" /\ resp.detail = "Token has expired"
    /\ \E i \in issued :
          /\ i.tok = resp.tok
          /\ i.at % TicksPerSec # 0
          /\ resp.at < i.at + ExpireTicks
          /\ \E j \in issued : j.email = i.email /\ j.at > i.at

\* C6: a correctly signed token past its expiry is refused with "Token has
\* expired", a token whose signature does not match or that is not a JWT is
\* refused with "Invalid token" whether or not its exp has passed, and the
\* responses given say the same of the instant the token was checked.
FailureKindsDistinct ==
    /\ \A t \in Presentable :
          /\ (t.sig = "ok" /\ jwt_expired(t, now)) =>
                /\ get_current_user(t).status = 401
                /\ get_current_user(t).detail = "Token has expired"
          /\ t.sig # "ok" =>
                /\ get_current_user(t).status = 401
                /\ get_current_user(t).detail = "Invalid token"
    /\ resp.op \in AuthenticatedOps =>
          /\ resp.detail = "Token has expired" =>
                resp.tok.sig = "ok" /\ jwt_expired(resp.tok, resp.at)
          /\ (resp.tok.sig = "ok" /\ jwt_expired(resp.tok, resp.at)) =>
                resp.status = 401 /\ resp.detail = "Token has expired"
          /\ resp.detail = "Invalid token" => resp.tok.sig # "ok"
          /\ resp.tok.sig # "ok" => resp.status = 401 /\ resp.detail = "Invalid token"

\* C6 witness: a request with an expired token was just refused as expired,
\* while a tampered copy of the same expired token is refused as invalid.
FailureKindsWitness ==
    /\ resp.op = "get_me" /\ resp.detail = "Token has expired"
    /\ [resp.tok EXCEPT !.sig = "bad"] \in Presentable
    /\ jwt_expired([resp.tok EXCEPT !.sig = "bad"], resp.at)
    /\ get_current_user([resp.tok EXCEPT !.sig = "bad"]).detail = "Invalid token"

\* the user holding an email, with the password they registered with
RegisteredWith(email, password) ==
    \E u \in UserIdx : users[u].email = email /\ secrets[u] = password

\* C7: login returns a token exactly when a user with the email exists and
\* the password is the one that user registered with, every other login is
\* answered 401 without a token, and no stored credential ever changes.
LoginIffRegisteredPassword ==
    /\ (Quiescent /\ resp.op = "login") =>
          /\ (resp.status = 200 /\ resp.out # NoTok)
                <=> RegisteredWith(resp.arg.email, resp.arg.password)
          /\ ~RegisteredWith(resp.arg.email, resp.arg.password) =>
                resp.status = 401 /\ resp.out = NoTok
    /\ \A u \in UserIdx : users[u].password_hash = hash_password(secrets[u])

\* C8: with requests processed one at a time, a register request whose
\* email, or whose username, a stored user already holds is answered 400,
\* inserts no user and issues no token.
DuplicateRegisterRejected ==
    [][\A c \in Slots :
        (/\ Answers(c, "register")
         /\ \E u \in DOMAIN calls[c].pre.users :
               \/ calls[c].pre.users[u].email = calls[c].arg.email
               \/ calls[c].pre.users[u].username = calls[c].arg.username)
        => (/\ resp'.status = 400 /\ resp'.out = NoTok
            /\ users' = calls[c].pre.users /\ issued' = issued)]_vars

\* C8 witness: a registration was refused for its username alone.
DuplicateRegisterWitness ==
    /\ Quiescent
    /\ resp.op = "register" /\ resp.status = 400
    /\ \E u \in UserIdx : users[u].username = resp.arg.username
    /\ \A u \in UserIdx : users[u].email # resp.arg.email

(***************************************************************************)
(* Properties of the guards.                                               *)
(***************************************************************************)
\* C1: a delete_post request by an authenticated user who is not the
\* post's recorded author is answered 403 and leaves the post and every
\* comment in the store; a post leaves the store only in the delete of a
\* delete_post request of its recorded author.
OnlyAuthorDeletesPost ==
    [][/\ \A c \in Slots :
            LET pre == calls[c].pre
                p == FoundIn(pre.posts, "p", calls[c].arg) IN
            (/\ Answers(c, "delete_post") /\ calls[c].actor # 0
             /\ p # 0
             /\ pre.posts[p].user_id # ActorId(calls[c]))
            => (resp'.status = 403 /\ posts' = pre.posts /\ comments' = pre.comments)
       /\ \A p \in DOMAIN posts \ DOMAIN posts' :
             \E c \in Slots :
                 /\ At(c, "delete_post", "delete_one")
                 /\ calls'[c].pc = "delete_many"
                 /\ FindPost(calls[c].arg) = p
                 /\ ActorId(calls[c]) = posts[p].user_id]_vars

\* C1 witness: a user other than the author was refused the deletion of a
\* post that has a comment.
ForeignPostDeleteWitness ==
    /\ Quiescent
    /\ resp.op = "delete_post" /\ resp.status = 403
    /\ FindPost(resp.arg) # 0
    /\ posts[FindPost(resp.arg)].user_id # ActorId(resp)
    /\ \E c \in DOMAIN comments : FindPost(comments[c].post_id) = FindPost(resp.arg)

\* C2: a delete_comment request by an authenticated user who is not the
\* comment's recorded author, the author of the commented post included, is
\* answered 403 and leaves the comment in the store; delete_comment removes
\* a comment only for its recorded author.
OnlyAuthorDeletesComment ==
    [][\A c \in Slots :
        LET pre == calls[c].pre
            k == FoundIn(pre.comments, "c", calls[c].arg) IN
        /\ (/\ Answers(c, "delete_comment") /\ calls[c].actor # 0
            /\ k # 0
            /\ pre.comments[k].user_id # ActorId(calls[c]))
           => (resp'.status = 403 /\ comments' = pre.comments /\ posts' = pre.posts)
        /\ Answers(c, "delete_comment") =>
              \A j \in DOMAIN pre.comments \ DOMAIN comments' :
                  /\ resp'.status = 200
                  /\ ActorId(calls[c]) = pre.comments[j].user_id]_vars

\* C2 witness: the author of a post was refused the deletion of another
\* user's comment on that post.
ForeignCommentDeleteWitness ==
    /\ Quiescent
    /\ resp.op = "delete_comment" /\ resp.status = 403
    /\ FindComment(resp.arg) # 0
    /\ LET c == comments[FindComment(resp.arg)] IN
       /\ c.user_id # ActorId(resp)
       /\ FindPost(c.post_id) # 0
       /\ posts[FindPost(c.post_id)].user_id = ActorId(resp)

GatedOps ==
    {"get_me", "update_profile", "get_user", "search_users", "follow_user",
     "unfollow_user", "create_post", "get_post", "get_feed", "get_user_posts",
     "delete_post", "like_post", "unlike_post", "create_comment",
     "get_comments", "delete_comment"}

\* a token that must not pass at instant t: not signed by the server, or
\* not a token, or past its expiry
BadToken(tok, t) == tok.sig # "ok" \/ jwt_expired(tok, t)

\* C4: on every endpoint but register and login, a request with a tampered,
\* malformed or expired bearer token never reaches the handler body, is
\* answered 401 and changes nothing in users, posts and comments.
BadTokenRunsNoHandler ==
    [][\A c \in Slots :
        /\ (calls'[c].op \in GatedOps /\ BadToken(calls'[c].tok, calls'[c].at))
           => calls'[c].pc = "refused"
        /\ (/\ calls[c].op \in GatedOps /\ calls'[c].op = "idle"
            /\ BadToken(calls[c].tok, calls[c].at))
           => (/\ resp'.status = 401 /\ resp'.actor = 0
               /\ Unwritten(c)
               /\ nextPost' = nextPost /\ nextComment' = nextComment)]_vars

\* C4 witness: the author's expired token was refused on delete_post while
\* the post, liked and commented, is in the store.
BadTokenWitness ==
    /\ Quiescent
    /\ resp.op = "delete_post" /\ resp.status = 401
    /\ resp.tok = TokenAOld
    /\ FindPost(resp.arg) # 0
    /\ posts[FindPost(resp.arg)].user_id = resp.tok.sub
    /\ posts[FindPost(resp.arg)].likes # <<>>
    /\ comments # <<>>

\* C9: a follow_user request whose target string equals the actor's id is
\* answered 400 "Cannot follow yourself" in every state of the store and
\* writes nothing.
SelfFollowRejected ==
    [][\A c \in Slots :
        (/\ Answers(c, "follow_user") /\ calls[c].actor # 0
         /\ calls[c].arg = ActorId(calls[c]))
        => (/\ resp'.status = 400 /\ resp'.detail = "Cannot follow yourself"
            /\ Unwritten(c))]_vars

\* C9 witness: a self-follow was refused while the actor follows someone and
\* is followed.
SelfFollowWitness ==
    /\ Quiescent
    /\ resp.op = "follow_user" /\ resp.detail = "Cannot follow yourself"
    /\ resp.arg = ActorId(resp)
    /\ users[resp.actor].following # <<>>
    /\ users[resp.actor].followers # <<>>

\* C10: no user's id is in that user's own followers list, and no entry of
\* a user's following list resolves to that user's own record.
NoSelfFollowEdge ==
    \A u \in UserIdx :
        /\ Str("u", u) \notin Range(users[u].followers)
        /\ \A s \in Range(users[u].following) : FindUser(s) # u

(***************************************************************************)
(* Properties of follow and unfollow.                                      *)
(***************************************************************************)
\* C11: an unfollow_user request whose target string equals the actor's id
\* is not answered with success: it is rejected with 400 and writes nothing.
SelfUnfollowRejected ==
    [][\A c \in Slots :
        (/\ Answers(c, "unfollow_user") /\ calls[c].actor # 0
         /\ calls[c].arg = ActorId(calls[c]))
        => (resp'.status = 400 /\ users' = calls[c].pre.users)]_vars

\* the user a request addressed
Target(r) == FindUser(r.arg)

\* C12: with requests processed one at a time, a follow_user request that
\* comes right after a successful follow_user request of the same actor for
\* the same other user is answered 400 "Already following this user" and
\* leaves every user's following and followers lists as they were.
DuplicateFollowRejected ==
    [][\A c \in Slots :
        (/\ resp.op = "follow_user" /\ resp.status = 200
         /\ Answers(c, "follow_user") /\ calls[c].actor = resp.actor
         /\ Target(calls[c]) = Target(resp) /\ Target(resp) # resp.actor)
        => (/\ resp'.status = 400
            /\ resp'.detail = "Already following this user"
            /\ users' = calls[c].pre.users)]_vars

\* two identifier strings of one identifier
SameId(s, t) == s.k = t.k /\ s.n = t.n

\* a list of identifier strings has an entry for the identifier of s
Lists(list, s) == \E e \in Range(list) : SameId(e, s)

\* C13: an unfollow_user request for a user who is not in the actor's
\* following list is answered with success and leaves every user record as
\* it was; an unfollow_user request repeated right after itself changes no
\* user record; and an unfollow_user request right after the actor's
\* successful follow_user request for the same user puts the actor's
\* following list back to what it was before the follow.
UnfollowIdempotent ==
    [][\A c \in Slots :
        LET pre == calls[c].pre IN
        /\ (/\ Answers(c, "unfollow_user") /\ calls[c].actor # 0
            /\ ValidId(calls[c].arg)
            /\ ~Lists(pre.users[calls[c].actor].following, calls[c].arg))
           => (resp'.status = 200 /\ users' = pre.users)
        /\ (/\ resp.op = "unfollow_user" /\ Answers(c, "unfollow_user")
            /\ calls[c].actor = resp.actor /\ resp.actor # 0
            /\ SameId(calls[c].arg, resp.arg))
           => users' = pre.users
        /\ (/\ resp.op = "follow_user" /\ resp.status = 200
            /\ Answers(c, "unfollow_user") /\ calls[c].actor = resp.actor
            /\ SameId(calls[c].arg, resp.arg))
           => users'[resp.actor].following
                 = Pull(pre.users[resp.actor].following, resp.arg)]_vars

\* C14: whenever no follow or unfollow request is in progress, for all
\* users a and b, b's id is in a's following list exactly when a's id is in
\* b's followers list, whatever follow and unfollow requests ran before and
\* however their store writes interleaved.
InverseEdgesConsistent ==
    Quiescent =>
        \A a, b \in UserIdx :
            Str("u", b) \in Range(users[a].following)
                <=> Str("u", a) \in Range(users[b].followers)

(***************************************************************************)
(* Properties of like and unlike.                                          *)
(***************************************************************************)
\* the post a request addressed
TargetPost(r) == FindPost(r.arg)

\* C15: with requests processed one at a time, a like_post request for a
\* post whose likes list holds the actor's id is answered 400 "Already
\* liked this post" and leaves the post's likes as they were; a like_post
\* request for a post whose likes list does not hold the actor's id is
\* answered with success and adds that one id to that post's likes and
\* changes nothing else.
DuplicateLikeRejected ==
    [][\A c \in Slots :
        LET pre == calls[c].pre
            p == FoundIn(pre.posts, "p", calls[c].arg) IN
        (Answers(c, "like_post") /\ calls[c].actor # 0 /\ p # 0)
        => IF ActorId(calls[c]) \in Range(pre.posts[p].likes)
           THEN /\ resp'.status = 400
                /\ resp'.detail = "Already liked this post"
                /\ posts' = pre.posts
           ELSE /\ resp'.status = 200
                /\ posts' = [pre.posts EXCEPT
                               ![p].likes = Append(@, ActorId(calls[c]))]
                /\ users' = pre.users /\ comments' = pre.comments]_vars

\* C15 witness: a user who had liked a post, as had the other user, liked
\* it again under the other spelling of its id and was refused.
DuplicateLikeWitness ==
    /\ Quiescent
    /\ resp.op = "like_post" /\ resp.detail = "Already liked this post"
    /\ resp.arg.up
    /\ ActorId(resp) \in Range(posts[TargetPost(resp)].likes)
    /\ Len(posts[TargetPost(resp)].likes) = 2

\* C16: an unlike_post request is answered with success whether or not the
\* actor's id is in the post's likes list; it takes the actor's id out of
\* that list and leaves every other like, every other post, the users and
\* the comments as they were; and repeated right after itself it changes
\* nothing.
UnlikeIdempotent ==
    [][\A c \in Slots :
        LET pre == calls[c].pre
            p == FoundIn(pre.posts, "p", calls[c].arg) IN
        /\ (Answers(c, "unlike_post") /\ calls[c].actor # 0 /\ ValidId(calls[c].arg))
           => /\ resp'.status = 200
              /\ users' = pre.users /\ comments' = pre.comments
              /\ DOMAIN posts' = DOMAIN pre.posts
              /\ \A q \in DOMAIN pre.posts :
                    posts'[q] = IF q = p
                                THEN [pre.posts[q] EXCEPT !.likes =
                                        SelectSeq(@, LAMBDA l : l # ActorId(calls[c]))]
                                ELSE pre.posts[q]
              /\ (p # 0 /\ ActorId(calls[c]) \notin Range(pre.posts[p].likes))
                    => posts' = pre.posts
        /\ (/\ resp.op = "unlike_post" /\ Answers(c, "unlike_post")
            /\ calls[c].actor = resp.actor /\ resp.actor # 0
            /\ SameId(calls[c].arg, resp.arg))
           => posts' = pre.posts]_vars

\* C16 witness: a user unliked the other user's post with success, under
\* the upper-case spelling of its id, and the like of the post's author is
\* still there.
UnlikeWitness ==
    /\ Quiescent
    /\ resp.op = "unlike_post" /\ resp.status = 200 /\ resp.arg.up
    /\ TargetPost(resp) # 0
    /\ posts[TargetPost(resp)].user_id # ActorId(resp)
    /\ posts[TargetPost(resp)].likes = <<posts[TargetPost(resp)].user_id>>

(***************************************************************************)
(* Properties of deletion.                                                 *)
(***************************************************************************)
\* C17: right after a delete_post request of a post's author was answered
\* with success, one request at a time, the post is not in the store
\* (get_post answers 404), no stored comment refers to the post, and so
\* delete_comment finds none of the comments that referred to it (404).
DeletePostCascades ==
    [][\A c \in Slots :
        LET pre == calls[c].pre IN
        (Answers(c, "delete_post") /\ resp'.status = 200)
        => (/\ calls[c].arg.n \notin DOMAIN posts'
            /\ \A k \in DOMAIN pre.comments :
                  SameId(pre.comments[k].post_id, calls[c].arg)
                      => k \notin DOMAIN comments'
            /\ \A k \in DOMAIN comments' :
                  ~SameId(comments'[k].post_id, calls[c].arg))]_vars

(***************************************************************************)
(* Properties of the order of checks and writes.                           *)
(***************************************************************************)
CheckedOps ==
    {"register", "update_profile", "follow_user", "like_post", "create_comment",
     "delete_post", "delete_comment"}

ErrorStatuses == {400, 401, 403, 404}

\* C18: a request to register, update_profile, follow_user, like_post,
\* create_comment, delete_post or delete_comment that is answered 400, 401,
\* 403 or 404 has written nothing: the users, posts and comments
\* collections are, when it is answered, as the request found them.
ErrorsWriteNothing ==
    [][\A c \in Slots :
        (/\ calls[c].op \in CheckedOps /\ calls'[c].op = "idle"
         /\ resp'.status \in ErrorStatuses)
        => Unwritten(c)]_vars

\* C18 witness: a user who follows the other was refused the deletion of
\* the other user's post, which has a like and a comment.
ErrorsWriteNothingWitness ==
    /\ Quiescent
    /\ resp.op = "delete_post" /\ resp.status = 403
    /\ users[resp.actor].following # <<>>
    /\ posts[TargetPost(resp)].likes # <<>>
    /\ comments # <<>>


(***************************************************************************)
(* Properties of the feed.                                                 *)
(***************************************************************************)
\* post p was created no earlier than post q
AtLeastAsNew(p, q) == posts[p].created_at >= posts[q].created_at

\* C19: a get_feed(skip, limit) response for actor A is a page of the posts
\* whose author id is A's id or an entry of A's following list: the posts
\* returned are among those, none twice, newest first; the skip newest of
\* those posts are dropped, at most limit of the rest are returned and
\* none of the rest that is newer than a returned one is left out; and no
\* returned post is by a user A neither follows nor is.
FeedIsPageOfFollowed ==
    (Quiescent /\ resp.op = "get_feed" /\ resp.status = 200) =>
        LET A == resp.actor
            out == resp.out
            E == {p \in DOMAIN posts :
                     \/ posts[p].user_id = ActorId(resp)
                     \/ posts[p].user_id \in Range(users[A].following)}
            R == {out[i].n : i \in DOMAIN out}
            dropped == IF resp.arg.skip < Cardinality(E)
                       THEN resp.arg.skip ELSE Cardinality(E)
            kept == IF resp.arg.limit < Cardinality(E) - dropped
                    THEN resp.arg.limit ELSE Cardinality(E) - dropped
        IN
        /\ R \subseteq E
        /\ \A i \in DOMAIN out : out[i] = Str("p", out[i].n)
        /\ \A i, j \in DOMAIN out :
              i < j => out[i] # out[j] /\ AtLeastAsNew(out[i].n, out[j].n)
        /\ Len(out) = kept
        /\ \E Sk \in SUBSET (E \ R) :
              /\ Cardinality(Sk) = dropped
              /\ \A p \in Sk, q \in E \ Sk : AtLeastAsNew(p, q)
              /\ \A p \in R, q \in E \ (Sk \cup R) : AtLeastAsNew(p, q)
        /\ \A p \in R :
              \/ FindUser(posts[p].user_id) = A
              \/ Lists(users[A].following, posts[p].user_id)

\* C19 witness: a user who follows nobody read the second page of one post
\* of their feed and got their older post, while the store holds a post of
\* the other user.
FeedWitness ==
    /\ Quiescent
    /\ resp.op = "get_feed" /\ resp.status = 200
    /\ resp.arg.skip = 1 /\ resp.arg.limit = 1
    /\ users[resp.actor].following = <<>>
    /\ Len(resp.out) = 1
    /\ posts[resp.out[1].n].user_id = ActorId(resp)
    /\ \E p \in DOMAIN posts :
          /\ posts[p].user_id = ActorId(resp)
          /\ posts[p].created_at > posts[resp.out[1].n].created_at
    /\ \E p \in DOMAIN posts : posts[p].user_id # ActorId(resp)

(***************************************************************************)
(* Properties of the profile update.                                       *)
(***************************************************************************)
KeptFields == {"email", "password_hash", "followers", "following"}

\* C20: an update_profile request that succeeds sets, in the actor's own
\* record, each of username, full_name, profile_pic and bio that the request
\* supplies with a non-null value to that value, and keeps the prior value
\* of each of them that it does not supply; the actor's email, password
\* hash, followers and following, every other user's record, the posts and
\* the comments are as before.  A refused one changes nothing.
ProfileUpdateFrame ==
    [][\A c \in Slots :
        (Answers(c, "update_profile") /\ calls[c].actor # 0)
        => LET A == calls[c].actor
               patch == calls[c].arg
               pre == calls[c].pre
           IN
           /\ posts' = pre.posts /\ comments' = pre.comments
           /\ Len(users') = Len(pre.users)
           /\ \A u \in DOMAIN pre.users : u # A => users'[u] = pre.users[u]
           /\ DOMAIN users'[A] = DOMAIN pre.users[A]
           /\ \A f \in KeptFields : users'[A][f] = pre.users[A][f]
           /\ resp'.status \in {200, 400}
           /\ resp'.status = 200 =>
                 \A f \in ProfileFields :
                     users'[A][f] = IF patch[f] = None THEN pre.users[A][f]
                                                       ELSE patch[f]
           /\ resp'.status = 400 => users' = pre.users]_vars

\* C20 witness: a user who is followed, has a post with comments and had
\* set a bio before, updated full_name and profile_pic alone; the bio set
\* before and the username are still there.
ProfileUpdateWitness ==
    /\ Quiescent
    /\ resp.op = "update_profile" /\ resp.status = 200
    /\ resp.arg = Patch(None, "New Name", "pic", None)
    /\ users[resp.actor].bio = "Bio"
    /\ users[resp.actor].username = "amy"
    /\ users[resp.actor].full_name = "New Name"
    /\ users[resp.actor].followers # <<>>
    /\ posts # <<>> /\ comments # <<>>

(***************************************************************************)
(* Properties of login.                                                    *)
(***************************************************************************)
\* C27: every login that returns no token, be its email unregistered or
\* its password not the registered one, gets the one response 401 "Invalid
\* email or password", and changes nothing in the store.
LoginHidesRegistration ==
    [][\A c \in Slots :
        (Answers(c, "login") /\ resp'.out = NoTok)
        => (/\ resp'.status = 401
            /\ resp'.detail = "Invalid email or password"
            /\ Unwritten(c))]_vars

(***************************************************************************)
(* Properties of the uniqueness of emails and usernames.                   *)
(***************************************************************************)
\* C22: with requests processed one at a time, an update_profile request
\* whose username is supplied, differs from the actor's username and is the
\* username of another stored user, the empty string included, is answered
\* 400 "Username already taken" and writes nothing.
TakenUsernameRejected ==
    [][\A c \in Slots :
        LET pre == calls[c].pre IN
        (/\ Answers(c, "update_profile") /\ calls[c].actor # 0
         /\ calls[c].arg.username # None
         /\ calls[c].arg.username # pre.users[calls[c].actor].username
         /\ \E u \in DOMAIN pre.users :
               u # calls[c].actor /\ pre.users[u].username = calls[c].arg.username)
        => (/\ resp'.status = 400
            /\ resp'.detail = "Username already taken"
            /\ users' = pre.users)]_vars

\* C21: in every reachable state, however concurrent register and
\* update_profile requests interleave their lookups and their writes, no
\* two user records hold the same email and no two hold the same username.
EmailsAndUsernamesUnique ==
    \A u, v \in UserIdx :
        u # v => /\ users[u].email # users[v].email
                 /\ users[u].username # users[v].username

\* C23: whenever no request is in progress, every stored comment's post_id
\* is the id of a stored post, however concurrent create_comment and
\* delete_post requests on one post interleaved.
CommentsHaveTheirPost ==
    Quiescent => \A c \in DOMAIN comments : FindPost(comments[c].post_id) # 0

\* C24: of the concurrent follow requests of one actor for one target that
\* were issued while the actor did not follow the target, at most one
\* answers 200, and likewise for the concurrent like_post requests of one
\* actor for one post.  No request removes a member here, so a second
\* success is a successful request whose actor is a member already.
AtMostOneDuplicateSucceeds ==
    [][\A c \in Slots :
          /\ (Answers(c, "follow_user") /\ resp'.status = 200)
                => ~Lists(users[FindUser(calls[c].arg)].followers,
                          Str("u", calls[c].actor))
          /\ (Answers(c, "like_post") /\ resp'.status = 200)
                => ~Lists(posts[FindPost(calls[c].arg)].likes,
                          Str("u", calls[c].actor))]_vars

\* lines 269, 270 and 413: the counts a response reports
followers_count(u) == Len(users[u].followers)
following_count(u) == Len(users[u].following)
likes_count(p) == Len(posts[p].likes)

\* a list holds no string twice
NoRepeat(s) == \A i, j \in DOMAIN s : s[i] = s[j] => i = j

\* C25: in every reachable state no identifier string occurs twice in a
\* followers, following or likes list, also after duplicate follow or like
\* requests that both passed the guard, and the counts that are reported
\* are the numbers of distinct members.
ListsAreSets ==
    /\ \A u \in UserIdx :
          /\ NoRepeat(users[u].followers) /\ NoRepeat(users[u].following)
          /\ followers_count(u) = Cardinality(Range(users[u].followers))
          /\ following_count(u) = Cardinality(Range(users[u].following))
    /\ \A p \in DOMAIN posts :
          /\ NoRepeat(posts[p].likes)
          /\ likes_count(p) = Cardinality(Range(posts[p].likes))

\* two follow requests of one actor for one target passed the guard: one
\* has answered 200, the other has made its first write and is about to
\* make its second, and the target occurs once in the actor's list and the
\* actor once in the target's
ListsAreSetsWitness ==
    /\ resp.op = "follow_user" /\ resp.status = 200
    /\ \E c \in Slots :
          /\ calls[c].op = "follow_user" /\ calls[c].pc = "followers"
          /\ calls[c].actor = resp.actor /\ calls[c].arg = resp.arg
          /\ Cardinality({i \in DOMAIN users[resp.actor].following :
                             users[resp.actor].following[i] = resp.arg}) = 1
          /\ Cardinality({i \in DOMAIN users[FindUser(resp.arg)].followers :
                             users[FindUser(resp.arg)].followers[i]
                                 = Str("u", resp.actor)}) = 1

\* the step is the one update of an unlike_post request of user v for post p
Unliked(v, p) ==
    \E c \in Slots : /\ Answers(c, "unlike_post") /\ calls[c].pc = "run"
                     /\ resp'.status = 200
                     /\ calls[c].actor = v /\ FindPost(calls[c].arg) = p

\* the step is the one update of a like_post request of user v for post p
Liked(v, p) ==
    \E c \in Slots : /\ Answers(c, "like_post") /\ calls[c].pc = "add"
                     /\ calls[c].actor = v /\ FindPost(calls[c].arg) = p

\* the step is the last update of a follow or unfollow request of user v
\* for user t
Followed(v, t) ==
    \E c \in Slots : /\ Answers(c, "follow_user") /\ calls[c].pc = "followers"
                     /\ calls[c].actor = v /\ FindUser(calls[c].arg) = t

Unfollowed(v, t) ==
    \E c \in Slots : /\ Answers(c, "unfollow_user") /\ calls[c].pc = "followers"
                     /\ calls[c].actor = v /\ FindUser(calls[c].arg) = t

\* C26: no update is lost.  In every step, a user is in a post's likes
\* after their like_post completes and is not after their unlike_post
\* completes, and no other step changes whether that user is in the list;
\* the same for a user's followers list and follow and unfollow requests.
\* So when all requests have completed, a list holds exactly the users
\* whose last completed successful request on it was a like (a follow).
NoLostUpdates ==
    [][/\ \A p \in DOMAIN posts \cap DOMAIN posts', v \in UserIdx :
             LET was == Str("u", v) \in Range(posts[p].likes)
                 is == Str("u", v) \in Range(posts'[p].likes)
             IN IF Liked(v, p) THEN is
                ELSE IF Unliked(v, p) THEN ~is
                ELSE is = was
       /\ \A t \in UserIdx, v \in UserIdx :
             LET was == Str("u", v) \in Range(users[t].followers)
                 is == Str("u", v) \in Range(users'[t].followers)
             IN IF Followed(v, t) THEN is
                ELSE IF Unfollowed(v, t) THEN ~is
                ELSE is = was]_vars

\* a user's like_post has answered 200 while another user's like_post of
\* the same post is in progress, and both users are in the post's likes
NoLostUpdatesWitness ==
    /\ resp.op = "like_post" /\ resp.status = 200
    /\ \E c \in Slots :
          /\ calls[c].op = "like_post" /\ calls[c].actor # resp.actor
          /\ SameId(calls[c].arg, resp.arg)
          /\ FindPost(resp.arg) # 0
          /\ {Str("u", resp.actor), Str("u", calls[c].actor)}
                 \subseteq Range(posts[FindPost(resp.arg)].likes)

====
